---- MODULE Spec2Model ----
(***************************************************************************)
(* Stream lifecycle of the RTSP server of tuya-ipc-terminal:               *)
(* pkg/rtsp/server.go (RTSPServer, CameraStream) and the parts of          *)
(* pkg/rtsp/bridge.go (WebRTCBridge) that the stream drives.               *)
(*                                                                         *)
(* Every goroutine is a process.  A section of code that runs under a      *)
(* mutex without blocking is one atomic action; a goroutine that blocks    *)
(* while it holds a mutex (startStream inside WebRTCBridge.Start,          *)
(* removeClient / Stop / cleanupInactiveStreams waiting for a stream       *)
(* mutex) is split at the blocking point.  Code that touches stream        *)
(* fields without the stream mutex (the OnError callback, the client       *)
(* sweep of CameraStream.Stop) is split into one action per statement      *)
(* group, so that every interleaving the race permits is explored.         *)
(***************************************************************************)
EXTENDS Integers, FiniteSets, Sequences, TLC

\* number of TCP connections the environment opens in one behaviour
MaxConns == 2

\* number of CameraStream objects NewCameraStream can allocate in one behaviour
MaxStreams == 2

Conns == 1..MaxConns

Streams == 1..MaxStreams

\* stream ids "<DeviceID>-<resolution>" (server.go:323)
Keys == {"cam-hd"}

NoStream == 0

VARIABLES
    running,      \* RTSPServer.running
    ctxDone,      \* s.cancel() has been called (s.ctx.Done() is closed)
    listener,     \* "none", "open", "closed"
    smutex,       \* holder of RTSPServer.mutex: "free", "stop", "cleanup", "conn" (removeClient)
    srvClients,   \* RTSPServer.clients (sessions, one per connection)
    registry,     \* RTSPServer.streams: stream id -> CameraStream or NoStream
    nextStream,   \* next CameraStream object to allocate
    stopper,      \* progress of the goroutine that calls CameraStream.Stop (live: the
                  \* stream was active or connecting when Stop was called)
    st,           \* CameraStream objects (with their WebRTCBridge)
    cpc,          \* position of each handleConnection goroutine
    cstream,      \* RTSPClient.stream of each connection
    connClosed    \* connections whose socket the server has closed

\* one WebRTCBridge with its MQTT client, in the detail that the stream
\* records above leave out
VARIABLES
    wb,           \* WebRTCBridge fields and the progress of its Start
    mq            \* tuya.MQTTClient and its broker connection

bridgeVars == <<wb, mq>>

\* the RTSP session of each connection
VARIABLES
    rc,           \* RTSPClient fields of each connection, with what the peer has seen
    resp          \* the last RTSP response the server has sent

rtspVars == <<rc, resp>>

\* one RTSP session and its forwarder entry, in the detail that rc leaves out
VARIABLES
    sess          \* RTSPClient and RTPClient fields of one session, its last response

\* the sockets of two forwarder clients and the goroutines that write to them
VARIABLES
    wire          \* what was written to each socket, and the writes in progress

\* the client table of one RTPForwarder and the clock its clients are stamped with
VARIABLES
    fan           \* rf.clients with each client's lastActivity, and time.Now()

\* the skill of one camera, what DESCRIBE said and what the bridge selected
VARIABLES
    sdp           \* camera.Skill, the video codec of the SDP, wb.streamType, wb.isHEVC

detailVars == <<sess, wire, fan, sdp>>

\* the variables of the detailed models, which the server model leaves alone
auxVars == <<bridgeVars, rtspVars, detailVars>>

streamVars == <<running, ctxDone, listener, smutex, srvClients, registry, nextStream,
          stopper, st, cpc, cstream, connClosed>>

vars == <<streamVars, auxVars>>

srvVars == <<running, ctxDone, listener>>

connVars == <<cpc, cstream, connClosed>>

----------------------------------------------------------------------------
(* CameraStream and WebRTCBridge state, one record per object *)

\* no entry in RTPForwarder.clients
NoSink == [transportMode |-> "none", videoConn |-> FALSE, audioConn |-> FALSE]

\* NewRTPForwarder (forwarder.go:70-78): RTPForwarder.clients is empty
NewRTPForwarder == [c \in Conns |-> NoSink]

\* NewCameraStream (server.go:446-462) + NewWebRTCBridge (bridge.go:58-72)
NewCameraStream(k) ==
    [ key           |-> k,
      rtpClients    |-> NewRTPForwarder, \* webrtcBridge.rtpForwarder.clients
      active        |-> FALSE,
      connecting    |-> FALSE,
      clients       |-> {},
      shutdownTimer |-> "nil",     \* "nil", "pending" (armed), "fired" (callback dispatched, not run)
      staleFired    |-> 0,         \* dispatched callbacks of timers cs.shutdownTimer no longer points to
      orphanPending |-> 0,         \* running timers cs.shutdownTimer no longer points to
      starters      |-> 0,         \* 'go cs.startStream()' goroutines not yet inside the mutex
      startPhase    |-> "none",    \* "waiting": startStream holds cs.mutex inside WebRTCBridge.Start
      connected     |-> FALSE,     \* WebRTCBridge.connected
      waiter        |-> "pending", \* WebRTCBridge.waiter: "pending", "done"
      pcState       |-> "none",    \* peer connection and camera client: "none" (not created, or closed by
                                   \* Stop), "connecting", "connected", "failed"
      onErr         |-> "none",    \* position of the OnError callback of this stream
      rmPending     |-> 0 ]        \* 'go cs.server.removeStream(cs.streamId)' goroutines not yet run

NoKey == "none"

\* the stream mutex is free (only startStream keeps it across actions)
Unlocked(s) == st[s].startPhase = "none"

\* time.Timer.Stop on cs.shutdownTimer followed by dropping the pointer:
\* a timer that already fired keeps its dispatched callback
CancelTimer(r) ==
    [r EXCEPT !.shutdownTimer = "nil",
              !.staleFired = IF r.shutdownTimer = "fired" THEN @ + 1 ELSE @]

\* CameraStream.scheduleShutdown (server.go:578-603), the arming part
scheduleShutdown(r) ==
    IF ~r.active THEN r
    ELSE [CancelTimer(r) EXCEPT !.shutdownTimer = "pending"]

\* WebRTCBridge.Stop (bridge.go:160-191); RTPForwarder.Stop
\* (forwarder.go:348-363) removes every forwarder client
bridgeStop(r) ==
    IF ~r.connected THEN r
    ELSE [r EXCEPT !.pcState = "none", !.connected = FALSE,
                   !.rtpClients = NewRTPForwarder]

\* CameraStream.stopStreamInternal (server.go:544-576)
stopStreamInternal(r) ==
    IF ~r.active /\ ~r.connecting THEN r
    ELSE LET r1 == [r EXCEPT !.active = FALSE, !.connecting = FALSE]
             r2 == IF r1.shutdownTimer # "nil" THEN CancelTimer(r1) ELSE r1
             r3 == bridgeStop(r2)
         IN  [r3 EXCEPT !.rmPending = @ + 1]

\* CameraStream.AddClient (server.go:464-482)
AddClient(r, c) ==
    LET r1 == IF r.shutdownTimer # "nil" THEN CancelTimer(r) ELSE r
        r2 == [r1 EXCEPT !.clients = @ \cup {c}]
    IN  IF ~r2.active THEN [r2 EXCEPT !.starters = @ + 1] ELSE r2

\* CameraStream.RemoveClient (server.go:484-500)
RemoveClient(r, c) ==
    LET r1 == [r EXCEPT !.rtpClients[c] = NoSink, !.clients = @ \ {c}]
    IN  IF r1.clients = {} /\ r1.active THEN scheduleShutdown(r1) ELSE r1

\* a timer callback that stops the stream without looking at the clients and
\* the active flag again
timerCallbackNoRecheck(r) ==
    LET r1 == stopStreamInternal(r)
    IN  [r1 EXCEPT !.shutdownTimer = "nil",
                   !.orphanPending = IF r1.shutdownTimer = "pending" THEN @ + 1 ELSE @,
                   !.staleFired = IF r1.shutdownTimer = "fired" THEN @ + 1 ELSE @]

\* the body of the time.AfterFunc callback (server.go:591-602), run under
\* cs.mutex: stop if there is still no client and the stream is active, then
\* forget the timer cs.shutdownTimer refers to
timerCallback(r) ==
    LET r1 == IF r.clients = {} /\ r.active THEN stopStreamInternal(r) ELSE r
    IN  [r1 EXCEPT !.shutdownTimer = "nil",
                   !.orphanPending = IF r1.shutdownTimer = "pending" THEN @ + 1 ELSE @,
                   !.staleFired = IF r1.shutdownTimer = "fired" THEN @ + 1 ELSE @]

----------------------------------------------------------------------------
\* NewWebRTCBridge (bridge.go:58-72) for a camera whose skill makes the
\* requested resolution an HEVC stream or not (bridge.go:131-132)
NewWebRTCBridge(res, hevc) ==
    [resolution |-> res, isHEVC |-> hevc,
     phase |-> "new",       \* progress of Start: "new", "mqtt", "waiting",
                            \* "started", "failed", "stopped"
     pc |-> "none",         \* "none", "new" (created, no offer published),
                            \* "connecting", "connected", "failed"
     dataChannel |-> "none",\* wb.dataChannel: "none", "created", "open"
     sent |-> <<>>,         \* probe messages the bridge sent on the data channel
     rcvd |-> <<>>,         \* string messages received on the data channel
     ssrc |-> FALSE,        \* rtpForwarder.videoSSRC/audioSSRC recorded by the probe
     stops |-> <<>>,        \* what the calls of Stop did, in order
     waiter |-> "pending",  \* wb.waiter: "pending", "done"
     connected |-> FALSE,   \* wb.connected
     resolutionFrames |-> 0,\* resolution frames sent to the camera
     errors |-> 0]          \* calls of wb.OnError

\* the MQTT client before NewMqttClient (mqtt.go:47-77) has run
NoMqttClient ==
    [link |-> "none",       \* broker connection: "none", "up", "lost"
     onConnect |-> FALSE,   \* the OnConnect handler is due
     Connected |-> "pending",\* MQTTClient.Connected: "pending", "ok", "err"
     closed |-> FALSE,      \* MQTTClient.closed
     reconnects |-> 0]      \* connections re-established by the MQTT library

\* NewRTSPServer (server.go:80-92): no stream, no connection
ServerInit ==
    /\ running = FALSE
    /\ ctxDone = FALSE
    /\ listener = "none"
    /\ smutex = "free"
    /\ srvClients = {}
    /\ registry = [k \in Keys |-> NoStream]
    /\ nextStream = 1
    /\ stopper = [who |-> "none", todo |-> {}, cur |-> NoStream, phase |-> "idle",
                  sweep |-> {}, live |-> FALSE]
    /\ st = [s \in Streams |-> NewCameraStream(NoKey)]
    /\ cpc = [c \in Conns |-> "none"]
    /\ cstream = [c \in Conns |-> NoStream]
    /\ connClosed = {}

\* the RTSPClient that handleConnection creates (server.go:264-279)
NewRTSPClient ==
    [transportMode |-> "udp",  \* "udp", "tcp"
     videoPort |-> FALSE,      \* client.videoPort > 0
     audioPort |-> FALSE,      \* client.audioPort > 0
     setupCount |-> 0,
     play |-> FALSE,           \* a PLAY of this client was answered with 200
     rtp |-> FALSE]            \* the forwarder has written a packet to this client

\* sendRTSPResponse (protocol.go:39-83) of a status code on connection c, in
\* answer to a request of the given method
Response(c, method, statusCode) == [to |-> c, method |-> method, status |-> statusCode]

\* no response has been sent
NoResponse == Response(0, "none", 0)

\* the RTSPClient of SpecSession as handleConnection creates it
\* (server.go:264-279), with no forwarder entry (forwarder.go:70-78) and no
\* response sent
NewSession ==
    [client |-> [transportMode |-> "udp", videoPort |-> 0, audioPort |-> 0,
                 videoChannel |-> 0, audioChannel |-> 2, backAudioChannel |-> 4,
                 setupCount |-> 0],
     rtp |-> [exists |-> FALSE, transportMode |-> "none",
              videoConn |-> FALSE, audioConn |-> FALSE,
              backchannelServerPort |-> 0,   \* 0: no backchannel listener
              videoRTPChannel |-> 0, audioRTPChannel |-> 0, backAudioRTPChannel |-> 0],
     open |-> TRUE,                          \* the handler is in its request loop
     resp |-> [method |-> "none", status |-> 0, request |-> 0, cseq |-> 0,
               serverPort |-> 0],            \* the last response: the method and the CSeq
                                             \* of the request it answers, and its CSeq
                                             \* header, 0: none
     done |-> {},                            \* <<track, mode>> of the SETUPs answered 200
     frame |-> [channel |-> 0, result |-> "none"],
                                             \* the last inbound interleaved frame:
                                             \* "sink", "dropped", "error"
     out |-> [track |-> "none", via |-> "none", channel |-> 0]]
                                             \* the last packet the forwarder wrote

\* the goroutines that write to client sockets: handleVideoTrack
\* (bridge.go:446-458), handleAudioTrack (bridge.go:461-473) and the request
\* handler of the TCP client (protocol.go:117-152)
Writers == {"video", "audio", "rtsp"}

\* nothing written yet, no call in progress
NewWire ==
    [stream |-> <<>>,                        \* the chunks written to the TCP client's
                                             \* connection, one per conn.Write
     udp |-> [w \in {"video", "audio"} |-> <<>>],
                                             \* the packets written to the UDP client's
                                             \* video and audio sockets
     next |-> [w \in Writers |-> 1],         \* number of the next packet (response) of
                                             \* each goroutine
     calls |-> [w \in Writers |-> {}]]       \* ForwardVideoPacket / ForwardAudioPacket /
                                             \* sendRTSPResponse calls in progress, each
                                             \* with the writes it still has to make

\* the session IDs of the forwarder clients
Sinks == {"s1", "s2"}

\* no entry in rf.clients
NoFanClient == [registered |-> FALSE, lastActivity |-> 0, lastWritten |-> 0, out |-> "none"]

\* NewRTPForwarder (forwarder.go:70-78) of a stream that is being served
NewFan ==
    [clients |-> [s \in Sinks |-> NoFanClient],
     now |-> 0,                 \* time.Now()
     active |-> TRUE,           \* the stream has not been stopped
     pkt |-> "none"]            \* the track of the packet forwarded last

\* a camera whose skill lists the videos given, before any DESCRIBE and
\* before the bridge has started
NewSdp(videos) ==
    [skill |-> videos,          \* Skill.Videos (part_006:17)
     path |-> "none",           \* the resolution of the stream DESCRIBE was sent to
     codec |-> "none",          \* the rtpmap of the SDP's video section
     resolution |-> "none",     \* wb.resolution of the bridge that has started
     streamType |-> 0,          \* wb.streamType
     isHEVC |-> FALSE]          \* wb.isHEVC

DetailInit == sess = NewSession /\ wire = NewWire /\ fan = NewFan /\ sdp = NewSdp(<<>>)

Init ==
    /\ ServerInit
    /\ wb = NewWebRTCBridge("hd", FALSE)
    /\ mq = NoMqttClient
    /\ rc = [c \in Conns |-> NewRTSPClient]
    /\ resp = NoResponse
    /\ DetailInit

----------------------------------------------------------------------------
(* RTSPServer *)

\* the streams in the registry, as 'range s.streams' visits them
RegistryStreams == {registry[k] : k \in Keys} \ {NoStream}

\* RTSPServer.Start (server.go:94-125).  Its caller builds a new server for
\* every start (runStartServer, unnamed/part_002:121-125), so Start never
\* runs on a server that was stopped.
Start ==
    /\ smutex = "free"
    /\ ~running
    /\ ~ctxDone
    /\ listener' = "open"
    /\ running' = TRUE
    /\ UNCHANGED auxVars
    /\ UNCHANGED <<ctxDone, smutex, srvClients, registry, nextStream, stopper, st, connVars>>

\* RTSPServer.Stop (server.go:127-149): up to the loop over the streams,
\* which runs with s.mutex held
StopBegin ==
    /\ smutex = "free"
    /\ running
    /\ running' = FALSE
    /\ ctxDone' = TRUE
    /\ listener' = "closed"
    /\ connClosed' = connClosed \cup srvClients
    /\ smutex' = "stop"
    /\ stopper' = [who |-> "stop", todo |-> RegistryStreams, cur |-> NoStream,
                   phase |-> "idle", sweep |-> {}, live |-> FALSE]
    /\ UNCHANGED auxVars
    /\ UNCHANGED <<srvClients, registry, nextStream, st, cpc, cstream>>

\* 'now.Sub(stream.lastActivity) > 5*time.Minute' (server.go:438) can hold.
\* lastActivity is set when the stream is created or reused, and by AddClient
\* and RemoveClient; five minutes is long against the grace delay (5 s,
\* server.go:454) and against a goroutine that can run.  So the stream is not
\* idle while a timer armed at the last activity is running, while a
\* dispatched timer callback can take the stream mutex, or while a connection
\* that resolved the stream can go on to AddClient.
MayBeIdle(s) ==
    /\ st[s].shutdownTimer # "pending"
    /\ st[s].orphanPending = 0
    /\ Unlocked(s) => st[s].shutdownTimer # "fired" /\ st[s].staleFired = 0
    /\ \A c \in Conns : cstream[c] = s =>
          /\ cpc[c] # "resolved"
          /\ cpc[c] = "registered" => ~Unlocked(s)

\* RTSPServer.cleanupRoutine / cleanupInactiveStreams (server.go:417-444):
\* a tick of the 30 s ticker while the context is not cancelled
CleanupBegin ==
    /\ running
    /\ ~ctxDone
    /\ smutex = "free"
    /\ \E s \in RegistryStreams : st[s].clients = {} /\ MayBeIdle(s)
    /\ smutex' = "cleanup"
    /\ stopper' = [who |-> "cleanup", todo |-> RegistryStreams, cur |-> NoStream,
                   phase |-> "idle", sweep |-> {}, live |-> FALSE]
    /\ UNCHANGED auxVars
    /\ UNCHANGED <<srvVars, srvClients, registry, nextStream, st, connVars>>

\* the next iteration of 'for ... range s.streams' in Stop (server.go:152-154)
\* or in cleanupInactiveStreams (server.go:436-443); the latter calls
\* stream.Stop only for an idle stream without clients, read without the
\* stream mutex
StopperNext ==
    /\ stopper.who # "none"
    /\ stopper.phase = "idle"
    /\ stopper.todo # {}
    /\ \E s \in stopper.todo, idle \in BOOLEAN :
          /\ idle => MayBeIdle(s)
          /\ IF stopper.who = "stop" \/ (idle /\ st[s].clients = {})
             THEN stopper' = [stopper EXCEPT !.todo = @ \ {s}, !.cur = s,
                                             !.phase = "sweep", !.sweep = st[s].clients,
                                             !.live = st[s].active \/ st[s].connecting]
             ELSE stopper' = [stopper EXCEPT !.todo = @ \ {s}]
    /\ UNCHANGED auxVars
    /\ UNCHANGED <<srvVars, smutex, srvClients, registry, nextStream, st, connVars>>

\* CameraStream.Stop (server.go:508-512): one iteration of the unlocked
\* 'for sessionID := range cs.clients { cs.RemoveClient(sessionID) }'.  The
\* range visits every client present when it started and may or may not
\* visit one added meanwhile.
StopSweep ==
    /\ stopper.phase = "sweep"
    /\ LET s == stopper.cur IN
       /\ Unlocked(s)
       /\ \E c \in stopper.sweep \cup st[s].clients :
             /\ st' = [st EXCEPT ![s] = RemoveClient(@, c)]
             /\ stopper' = [stopper EXCEPT !.sweep = @ \ {c}]
    /\ UNCHANGED auxVars
    /\ UNCHANGED <<srvVars, smutex, srvClients, registry, nextStream, connVars>>

\* CameraStream.Stop (server.go:514-515) -> stopStream (server.go:538-542)
StopStream ==
    /\ stopper.phase = "sweep"
    /\ stopper.sweep = {}
    /\ LET s == stopper.cur IN
       /\ Unlocked(s)
       /\ st' = [st EXCEPT ![s] = stopStreamInternal(@)]
    /\ stopper' = [stopper EXCEPT !.phase = "returned"]
    /\ UNCHANGED auxVars
    /\ UNCHANGED <<srvVars, smutex, srvClients, registry, nextStream, connVars>>

\* CameraStream.Stop has returned to its caller; cleanupInactiveStreams
\* deletes the registry entry it iterated on (server.go:441)
StopReturned ==
    /\ stopper.phase = "returned"
    /\ registry' = IF stopper.who = "cleanup"
                   THEN [registry EXCEPT ![st[stopper.cur].key] = NoStream]
                   ELSE registry
    /\ stopper' = [stopper EXCEPT !.phase = "idle", !.cur = NoStream, !.live = FALSE]
    /\ UNCHANGED auxVars
    /\ UNCHANGED <<srvVars, smutex, srvClients, nextStream, st, connVars>>

\* Stop / cleanupInactiveStreams return and release s.mutex (deferred Unlock)
StopperEnd ==
    /\ stopper.who # "none"
    /\ stopper.phase = "idle"
    /\ stopper.todo = {}
    /\ smutex' = "free"
    /\ stopper' = [stopper EXCEPT !.who = "none"]
    /\ UNCHANGED auxVars
    /\ UNCHANGED <<srvVars, srvClients, registry, nextStream, st, connVars>>

\* RTSPServer.removeStream (server.go:357-365), run by the goroutine that
\* stopStreamInternal started (server.go:571-575)
removeStream(s) ==
    /\ st[s].rmPending > 0
    /\ smutex = "free"
    /\ registry' = [registry EXCEPT ![st[s].key] = NoStream]
    /\ st' = [st EXCEPT ![s].rmPending = @ - 1]
    /\ UNCHANGED auxVars
    /\ UNCHANGED <<srvVars, smutex, srvClients, nextStream, stopper, connVars>>

----------------------------------------------------------------------------
(* handleConnection goroutines *)

\* acceptConnections (server.go:197-215): Accept returns a connection and
\* 'go s.handleConnection(conn)' starts.  Connections are numbered in the
\* order in which they are accepted.
Accept(c) ==
    /\ cpc[c] = "none"
    /\ \A d \in Conns : d < c => cpc[d] # "none"
    /\ running
    /\ ~ctxDone
    /\ listener = "open"
    /\ cpc' = [cpc EXCEPT ![c] = "accepted"]
    /\ UNCHANGED auxVars
    /\ UNCHANGED <<srvVars, smutex, srvClients, registry, nextStream, stopper, st,
                   cstream, connClosed>>

\* handleConnection (server.go:225-252): the initial request cannot be parsed,
\* has no camera path or names no camera; the connection is closed
InitialRequestFail(c) ==
    /\ cpc[c] = "accepted"
    /\ cpc' = [cpc EXCEPT ![c] = "done"]
    /\ connClosed' = connClosed \cup {c}
    /\ UNCHANGED auxVars
    /\ UNCHANGED <<srvVars, smutex, srvClients, registry, nextStream, stopper, st, cstream>>

\* RTSPServer.getOrCreateStream (server.go:318-355), called from
\* handleConnection (server.go:257) once the initial request names camera k
getOrCreateStream(c, k) ==
    /\ cpc[c] = "accepted"
    /\ smutex = "free"
    /\ LET old == registry[k] IN
       IF old # NoStream /\ (st[old].active \/ st[old].connecting)
       THEN /\ st' = st
            /\ cstream' = [cstream EXCEPT ![c] = old]
            /\ UNCHANGED <<registry, nextStream>>
       ELSE /\ nextStream <= MaxStreams
            /\ st' = [st EXCEPT ![nextStream] =
                         [NewCameraStream(k) EXCEPT !.connecting = TRUE]]
            /\ registry' = [registry EXCEPT ![k] = nextStream]
            /\ cstream' = [cstream EXCEPT ![c] = nextStream]
            /\ nextStream' = nextStream + 1
    /\ cpc' = [cpc EXCEPT ![c] = "resolved"]
    /\ UNCHANGED auxVars
    /\ UNCHANGED <<srvVars, smutex, srvClients, stopper, connClosed>>

\* RTSPServer.addClient (server.go:367-371), from handleConnection (server.go:282)
addClient(c) ==
    /\ cpc[c] = "resolved"
    /\ smutex = "free"
    /\ srvClients' = srvClients \cup {c}
    /\ cpc' = [cpc EXCEPT ![c] = "registered"]
    /\ UNCHANGED auxVars
    /\ UNCHANGED <<srvVars, smutex, registry, nextStream, stopper, st, cstream, connClosed>>

\* stream.AddClient(client) from handleConnection (server.go:283)
StreamAddClient(c) ==
    /\ cpc[c] = "registered"
    /\ Unlocked(cstream[c])
    /\ st' = [st EXCEPT ![cstream[c]] = AddClient(@, c)]
    /\ cpc' = [cpc EXCEPT ![c] = "serving"]
    /\ UNCHANGED auxVars
    /\ UNCHANGED <<srvVars, smutex, srvClients, registry, nextStream, stopper,
                   cstream, connClosed>>

\* handleRTSPProtocol ends (protocol.go:117-152: read error, timeout, peer or
\* server closed the socket) and the deferred removeClient takes s.mutex
\* (server.go:373-375)
removeClientLock(c) ==
    /\ cpc[c] = "serving"
    /\ smutex = "free"
    /\ smutex' = "conn"
    /\ cpc' = [cpc EXCEPT ![c] = "removing"]
    /\ UNCHANGED auxVars
    /\ UNCHANGED <<srvVars, srvClients, registry, nextStream, stopper, st,
                   cstream, connClosed>>

\* RTSPServer.removeClient (server.go:377-386) with s.mutex held:
\* client.stream.RemoveClient, conn.Close, delete
removeClient(c) ==
    /\ cpc[c] = "removing"
    /\ Unlocked(cstream[c])
    /\ st' = [st EXCEPT ![cstream[c]] = RemoveClient(@, c)]
    /\ srvClients' = srvClients \ {c}
    /\ smutex' = "free"
    /\ cpc' = [cpc EXCEPT ![c] = "done"]
    /\ cstream' = [cstream EXCEPT ![c] = NoStream]
    /\ connClosed' = connClosed \cup {c}
    /\ UNCHANGED auxVars
    /\ UNCHANGED <<srvVars, registry, nextStream, stopper>>

----------------------------------------------------------------------------
(* CameraStream.startStream and WebRTCBridge.Start *)

srvAll == <<running, ctxDone, listener, smutex, srvClients, registry, nextStream, stopper>>

\* a 'go cs.startStream()' goroutine takes cs.mutex and returns at once
\* because the stream is active (server.go:519-524)
startStreamActive(s) ==
    /\ st[s].starters > 0
    /\ Unlocked(s)
    /\ st[s].active
    /\ st' = [st EXCEPT ![s].starters = @ - 1]
    /\ UNCHANGED auxVars
    /\ UNCHANGED <<srvAll, connVars>>

\* startStream calls WebRTCBridge.Start, which returns an error: the bridge
\* is already connected (bridge.go:79-81) or one of the set-up steps fails
\* (bridge.go:85-147); startStream calls stopStreamInternal (server.go:528-532)
startStreamFail(s) ==
    /\ st[s].starters > 0
    /\ Unlocked(s)
    /\ ~st[s].active
    /\ st' = [st EXCEPT ![s] = stopStreamInternal([@ EXCEPT !.starters = @ - 1])]
    /\ UNCHANGED auxVars
    /\ UNCHANGED <<srvAll, connVars>>

\* startStream calls WebRTCBridge.Start, which creates the peer connection,
\* registers the camera client and publishes the offer (bridge.go:85-147);
\* it then blocks in wb.waiter.Wait() (bridge.go:149) with cs.mutex and the
\* bridge mutex held
startStreamOffer(s) ==
    /\ st[s].starters > 0
    /\ Unlocked(s)
    /\ ~st[s].active
    /\ ~st[s].connected
    /\ st' = [st EXCEPT ![s].starters = @ - 1,
                        ![s].startPhase = "waiting",
                        ![s].pcState = "connecting"]
    /\ UNCHANGED auxVars
    /\ UNCHANGED <<srvAll, connVars>>

\* OnConnectionStateChange(Connected) (bridge.go:301-308): the waiter is released
pcConnected(s) ==
    /\ st[s].pcState = "connecting"
    /\ st' = [st EXCEPT ![s].pcState = "connected", ![s].waiter = "done"]
    /\ UNCHANGED auxVars
    /\ UNCHANGED <<srvAll, connVars>>

\* wb.waiter.Wait() returns nil: Start sets connected (bridge.go:149-156),
\* startStream marks the stream active and releases cs.mutex (server.go:534-536)
startReady(s) ==
    /\ st[s].startPhase = "waiting"
    /\ st[s].waiter = "done"
    /\ st' = [st EXCEPT ![s].startPhase = "none",
                        ![s].connected = TRUE,
                        ![s].connecting = FALSE,
                        ![s].active = TRUE]
    /\ UNCHANGED auxVars
    /\ UNCHANGED <<srvAll, connVars>>

----------------------------------------------------------------------------
(* the shutdown timer *)

\* the runtime fires the timer cs.shutdownTimer points to and dispatches its
\* callback in a new goroutine (time.AfterFunc, server.go:591)
timerFire(s) ==
    /\ st[s].shutdownTimer = "pending"
    /\ st' = [st EXCEPT ![s].shutdownTimer = "fired"]
    /\ UNCHANGED auxVars
    /\ UNCHANGED <<srvAll, connVars>>

\* the same for a running timer the stream no longer points to
orphanFire(s) ==
    /\ st[s].orphanPending > 0
    /\ st' = [st EXCEPT ![s].orphanPending = @ - 1, ![s].staleFired = @ + 1]
    /\ UNCHANGED auxVars
    /\ UNCHANGED <<srvAll, connVars>>

\* the callback of the timer cs.shutdownTimer points to runs (server.go:591-602);
\* Stop on its own, already fired timer changes nothing
shutdownCallback(s) ==
    /\ st[s].shutdownTimer = "fired"
    /\ Unlocked(s)
    /\ st' = [st EXCEPT ![s] = timerCallback([@ EXCEPT !.shutdownTimer = "nil"])]
    /\ UNCHANGED auxVars
    /\ UNCHANGED <<srvAll, connVars>>

\* the callback of a timer that was stopped after it had fired runs
staleCallback(s) ==
    /\ st[s].staleFired > 0
    /\ Unlocked(s)
    /\ st' = [st EXCEPT ![s] = timerCallback([@ EXCEPT !.staleFired = @ - 1])]
    /\ UNCHANGED auxVars
    /\ UNCHANGED <<srvAll, connVars>>

----------------------------------------------------------------------------
(* bridge events and the OnError callback *)

\* the peer connection fails (bridge.go:296-299): handleError
\* (bridge.go:563-567) calls OnError, which starts with
\* 'if stream.active || stream.connecting' (server.go:337), read without the
\* stream mutex
bridgeError(s) ==
    /\ st[s].pcState \in {"connecting", "connected"}
    /\ st[s].onErr = "none"
    /\ st' = [st EXCEPT ![s].onErr = IF st[s].active \/ st[s].connecting
                                     THEN "locking" ELSE "none",
                        ![s].pcState = "failed"]
    /\ UNCHANGED auxVars
    /\ UNCHANGED <<srvAll, connVars>>

\* a disconnect frame arrives for the camera client: HandleDisconnect
\* (bridge.go:400-403) clears wb.connected
handleDisconnect(s) ==
    /\ st[s].pcState # "none"
    /\ st[s].connected
    /\ st' = [st EXCEPT ![s].connected = FALSE]
    /\ UNCHANGED auxVars
    /\ UNCHANGED <<srvAll, connVars>>

\* OnError (server.go:341-345): the client count is read under the mutex
onErrorCount(s) ==
    /\ st[s].onErr = "locking"
    /\ Unlocked(s)
    /\ st' = [st EXCEPT ![s].onErr = IF st[s].clients = {} THEN "stop1" ELSE "none"]
    /\ UNCHANGED auxVars
    /\ UNCHANGED <<srvAll, connVars>>

\* OnError (server.go:346) calls stopStreamInternal without the mutex;
\* first statement group (server.go:546-552)
onErrorStopFlags(s) ==
    /\ st[s].onErr = "stop1"
    /\ st' = [st EXCEPT ![s] =
                 IF ~st[s].active /\ ~st[s].connecting
                 THEN [@ EXCEPT !.onErr = "none"]
                 ELSE [@ EXCEPT !.active = FALSE, !.connecting = FALSE, !.onErr = "stop2"]]
    /\ UNCHANGED auxVars
    /\ UNCHANGED <<srvAll, connVars>>

\* second statement group (server.go:554-558)
onErrorStopTimer(s) ==
    /\ st[s].onErr = "stop2"
    /\ st' = [st EXCEPT ![s] = [CancelTimer(@) EXCEPT !.onErr = "stop3"]]
    /\ UNCHANGED auxVars
    /\ UNCHANGED <<srvAll, connVars>>

\* third statement group (server.go:565-575): webrtcBridge.Stop needs the
\* bridge mutex, which Start holds while it runs
onErrorStopBridge(s) ==
    /\ st[s].onErr = "stop3"
    /\ st[s].startPhase = "none"
    /\ st' = [st EXCEPT ![s] = [bridgeStop(@) EXCEPT !.rmPending = @ + 1, !.onErr = "none"]]
    /\ UNCHANGED auxVars
    /\ UNCHANGED <<srvAll, connVars>>

----------------------------------------------------------------------------
Next ==
    \/ Start
    \/ StopBegin
    \/ CleanupBegin
    \/ StopperNext
    \/ StopSweep
    \/ StopStream
    \/ StopReturned
    \/ StopperEnd
    \/ \E s \in Streams : removeStream(s)
    \/ \E c \in Conns : Accept(c)
    \/ \E c \in Conns : InitialRequestFail(c)
    \/ \E c \in Conns, k \in Keys : getOrCreateStream(c, k)
    \/ \E c \in Conns : addClient(c)
    \/ \E c \in Conns : StreamAddClient(c)
    \/ \E c \in Conns : removeClientLock(c)
    \/ \E c \in Conns : removeClient(c)
    \/ \E s \in Streams : startStreamActive(s)
    \/ \E s \in Streams : startStreamFail(s)
    \/ \E s \in Streams : startStreamOffer(s)
    \/ \E s \in Streams : pcConnected(s)
    \/ \E s \in Streams : startReady(s)
    \/ \E s \in Streams : timerFire(s)
    \/ \E s \in Streams : orphanFire(s)
    \/ \E s \in Streams : shutdownCallback(s)
    \/ \E s \in Streams : staleCallback(s)
    \/ \E s \in Streams : bridgeError(s)
    \/ \E s \in Streams : handleDisconnect(s)
    \/ \E s \in Streams : onErrorCount(s)
    \/ \E s \in Streams : onErrorStopFlags(s)
    \/ \E s \in Streams : onErrorStopTimer(s)
    \/ \E s \in Streams : onErrorStopBridge(s)

Spec == Init /\ [][Next]_vars

----------------------------------------------------------------------------
(* Fairness.  The Go scheduler runs every goroutine that can run, the       *)
(* runtime fires every running timer, and sync.Mutex hands the lock to a    *)
(* waiter (starvation mode), hence strong fairness for the goroutine steps, *)
(* some of which need a mutex.  Nothing obliges the environment: clients    *)
(* that connect, send their first request or leave, the camera that         *)
(* answers, fails or sends a disconnect frame, the operator who stops the   *)
(* server, and the age of a stream that the cleanup ticker looks at.        *)
(* Connections and streams are bounded, so each goroutine step other than   *)
(* those of the cleanup loop occurs finitely often in a behaviour, and      *)
(* strong fairness of their disjunction is strong fairness of each of them. *)

startStream(s) == startStreamActive(s) \/ startStreamFail(s) \/ startStreamOffer(s)

\* a connection leaves the request loop because the server closed its socket
closedConnLeaves(c) == c \in connClosed /\ removeClientLock(c)

\* a step of the goroutine that runs RTSPServer.Stop or cleanupInactiveStreams
StopperStep == StopperNext \/ StopSweep \/ StopStream \/ StopReturned \/ StopperEnd

\* a step of any other goroutine or timer of the server
GoroutineStep ==
    \/ \E s \in Streams :
          \/ removeStream(s) \/ startStream(s) \/ startReady(s)
          \/ timerFire(s) \/ orphanFire(s) \/ shutdownCallback(s) \/ staleCallback(s)
          \/ onErrorCount(s) \/ onErrorStopFlags(s) \/ onErrorStopTimer(s)
          \/ onErrorStopBridge(s)
    \/ \E c \in Conns :
          addClient(c) \/ StreamAddClient(c) \/ closedConnLeaves(c) \/ removeClient(c)

Fairness == SF_vars(GoroutineStep) /\ SF_vars(StopperStep)

SpecFair == Spec /\ Fairness

----------------------------------------------------------------------------
(* Properties *)

Created == {s \in Streams : st[s].key # NoKey}

\* cs.shutdownTimer refers to a timer that is running or whose callback has
\* been dispatched and has not run yet
TimerArmed(s) == st[s].shutdownTimer # "nil"

\* a grace timer of the stream is running
TimerRunning(s) == st[s].shutdownTimer = "pending" \/ st[s].orphanPending > 0

\* dispatched timer callbacks that have not run yet
CallbacksInFlight(r) == r.staleFired + (IF r.shutdownTimer = "fired" THEN 1 ELSE 0)

\* this step runs a timer callback of stream s
CallbackRuns(s) == CallbacksInFlight(st'[s]) < CallbacksInFlight(st[s])

\* this step stops stream s
StreamStops(s) ==
    /\ st[s].active \/ st[s].connecting
    /\ ~st'[s].active /\ ~st'[s].connecting

\* the bridge of stream s is torn down: peer connection and signaling closed
BridgeStopped(s) == ~st[s].connected /\ st[s].pcState = "none"

\* the registry maps the key of stream s to some stream
KeyRegistered(s) == \E k \in Keys : k = st[s].key /\ registry[k] # NoStream

\* the registry holds stream s
Registered(s) == \E k \in Keys : registry[k] = s

\* C1: a stream that is Active and has no attached client has its shutdown
\* timer armed.
C1_ActiveIdleHasTimer ==
    \A s \in Created : st[s].active /\ st[s].clients = {} => TimerArmed(s)

\* C3: a grace-timer callback stops the stream only if, when it runs under
\* the stream mutex, the stream has no clients and is Active; a stream with an
\* attached client is never stopped by the grace timer.
C3_CallbackRechecks ==
    [][\A s \in Streams :
          CallbackRuns(s) /\ (StreamStops(s) \/ st'[s].rmPending # st[s].rmPending
                                             \/ st'[s].connected # st[s].connected)
             => st[s].clients = {} /\ st[s].active]_vars

\* C3 witness: a timer callback is dispatched and waits while a client is
\* attached to the Active stream (the client arrived after the timer fired).
C3_Witness ==
    \E s \in Created : st[s].staleFired > 0 /\ st[s].active /\ st[s].clients # {}

C5_CancelledTimerHasNoEffect ==
    [][\A s \in Streams :
          CallbackRuns(s) /\ StreamStops(s) => st[s].shutdownTimer = "fired"]_vars

\* a bridge of stream s is started or being started
BridgeLive(s) == st[s].active \/ st[s].connecting \/ st[s].startPhase # "none"

\* C6: for each stream key at most one CameraStream has a bridge that is
\* started or being started.
C6_OneStreamPerKey ==
    \A k \in Keys : Cardinality({s \in Created : st[s].key = k /\ BridgeLive(s)}) <= 1

\* C8: an Active stream has a bridge that is connected.
C8_ActiveHasBridge ==
    \A s \in Created : st[s].active => st[s].connected /\ st[s].pcState = "connected"

\* C9: when CameraStream.Stop returns on a stream that was Active or
\* Connecting, the stream is neither Active nor Connecting, has no client and
\* no armed timer, and its bridge is stopped.
C9_StopTearsDown ==
    [][(stopper.phase = "sweep" /\ stopper'.phase = "returned" /\ stopper.live)
          => LET s == stopper.cur IN
             /\ ~st'[s].active /\ ~st'[s].connecting
             /\ st'[s].clients = {}
             /\ st'[s].shutdownTimer = "nil"
             /\ ~st'[s].connected /\ st'[s].pcState = "none"]_vars

\* RTSPServer.Stop has been called and has returned
ServerStopReturned == ctxDone /\ stopper.who # "stop"

\* C10: after RTSPServer.Stop has returned, no connection is accepted, no
\* client is added to the client registry and no CameraStream is created or
\* started.
C10_NothingAfterStop ==
    [][ServerStopReturned =>
          /\ \A c \in Conns : cpc[c] = "none" => cpc'[c] = "none"
          /\ srvClients' \subseteq srvClients
          /\ nextStream' = nextStream
          /\ \A s \in Streams : st'[s].startPhase # "none" => st[s].startPhase # "none"]_vars

\* the last client has left Active stream s: no client, timer armed
LastClientGone(s) == st[s].active /\ st[s].clients = {} /\ st[s].shutdownTimer = "pending"

\* C2: once the last client has left an Active stream, and unless a client
\* attaches afterwards, eventually the stream is not Active, its bridge is
\* stopped and the registry no longer holds the stream's key.
C2_DelayedShutdown ==
    \A s \in Streams :
        LastClientGone(s)
            ~> \/ st[s].clients # {}
               \/ /\ ~st[s].active
                  /\ BridgeStopped(s)
                  /\ ~KeyRegistered(s)

\* C7: whenever OnError runs for a stream that is Connecting or Active, the
\* stream is eventually stopped and removed from the registry.
C7_ErrorStopsStream ==
    \A s \in Streams :
        (st[s].onErr = "locking")
            ~> /\ ~st[s].active /\ ~st[s].connecting
               /\ ~Registered(s)

\* this step is a startStream goroutine whose WebRTCBridge.Start failed
StartFails(s) ==
    /\ st'[s].starters < st[s].starters
    /\ ~st[s].active
    /\ st'[s].startPhase = "none"

\* C11: when the bridge fails to start, the stream ends up neither Active nor
\* Connecting and the connection of every client attached to the stream,
\* the one whose arrival triggered the start included, is closed (after its
\* 500 response) instead of being served.
C11_StartFailureClosesClients ==
    [][\A s \in Streams :
          StartFails(s) =>
             /\ ~st'[s].active /\ ~st'[s].connecting
             /\ st'[s].clients \subseteq connClosed'
             /\ \A c \in st'[s].clients : cpc'[c] # "serving"]_vars

\* WebRTCBridge.Start of stream s waits for readiness
StartWaits(s) == st[s].startPhase = "waiting" /\ st[s].waiter = "pending"

\* C12: when the bridge reports an error while Start still waits for
\* readiness, the pending Start returns (with the error) and the stream
\* leaves Connecting.
C12_ErrorEndsPendingStart ==
    \A s \in Streams :
        (StartWaits(s) /\ st[s].pcState = "failed")
            ~> (st[s].startPhase = "none" /\ ~st[s].connecting)

\* C13: every bridge start completes: a startStream that is blocked in
\* WebRTCBridge.Start with the stream mutex held eventually returns, so
\* no stream stays Connecting for ever.
C13_ConnectingIsTransient ==
    \A s \in Streams :
        (st[s].startPhase = "waiting") ~> (st[s].startPhase = "none" /\ ~st[s].connecting)

----------------------------------------------------------------------------
(* One WebRTCBridge and its MQTT client (bridge.go, tuya/mqtt.go) *)

\* number of times the MQTT library re-establishes a lost connection
MaxReconnects == 2

Resolutions == {"hd", "sd"}

InitBridge ==
    /\ ServerInit
    /\ \E res \in Resolutions, hevc \in BOOLEAN : wb = NewWebRTCBridge(res, hevc)
    /\ mq = NoMqttClient
    /\ rc = [c \in Conns |-> NewRTSPClient]
    /\ resp = NoResponse
    /\ DetailInit

\* WebRTCBridge.Start up to NewMqttClient (bridge.go:75-112): the broker
\* connection is made (mqtt.go:72) and the OnConnect handler is due
bridgeStartMqtt ==
    /\ wb.phase = "new"
    /\ wb' = [wb EXCEPT !.phase = "mqtt"]
    /\ mq' = [mq EXCEPT !.link = "up", !.onConnect = TRUE]
    /\ UNCHANGED <<streamVars, rtspVars, detailVars>>

\* Start fails before the offer: an API request or the broker connection
\* fails (bridge.go:85-112)
bridgeStartFail ==
    /\ wb.phase = "new"
    /\ wb' = [wb EXCEPT !.phase = "failed"]
    /\ UNCHANGED <<mq, streamVars, rtspVars, detailVars>>

\* MQTTClient.onConnect (mqtt.go:100-111): subscribe, then Connected.Done
mqttOnConnect ==
    /\ mq.link = "up" /\ mq.onConnect
    /\ \E ok \in BOOLEAN :
          mq' = [mq EXCEPT !.onConnect = FALSE,
                           !.Connected = IF @ # "pending" THEN @
                                         ELSE IF ok THEN "ok" ELSE "err"]
    /\ UNCHANGED <<wb, streamVars, rtspVars, detailVars>>

\* mqttClient.Connected.Wait() returns (bridge.go:114-116); on success Start
\* sets up the peer connection, with a data channel for HEVC
\* (bridge.go:137-139, 239-246), and the handlers, publishes the offer
\* (bridge.go:145-147) and waits for readiness (bridge.go:149).  Every
\* failure returns the error and closes nothing (bridge.go:115, 121, 138,
\* 146).
bridgeStartOffer ==
    /\ wb.phase = "mqtt"
    /\ mq.Connected # "pending"
    /\ \E offerOk \in BOOLEAN :
          wb' = IF mq.Connected # "ok"
                THEN [wb EXCEPT !.phase = "failed"]
                ELSE LET dc == IF wb.isHEVC THEN "created" ELSE "none"
                     IN  IF offerOk
                         THEN [wb EXCEPT !.phase = "waiting", !.pc = "connecting",
                                         !.dataChannel = dc]
                         ELSE [wb EXCEPT !.phase = "failed", !.pc = "new",
                                         !.dataChannel = dc]
    /\ UNCHANGED <<mq, streamVars, rtspVars, detailVars>>

\* OnConnectionStateChange(Connected) (bridge.go:301-308)
bridgePcConnected ==
    /\ wb.pc = "connecting"
    /\ wb' = IF ~wb.isHEVC /\ wb.resolution = "hd"
             THEN [wb EXCEPT !.pc = "connected", !.waiter = "done",
                             !.resolutionFrames = @ + 1]
             ELSE [wb EXCEPT !.pc = "connected"]
    /\ UNCHANGED <<mq, streamVars, rtspVars, detailVars>>

\* string messages the camera sends on the data channel while the model
\* follows it
MaxProbeMsgs == 2

\* the type of a string message: "garbage" is one json.Unmarshal rejects
\* (bridge.go:512-515), "other" any type the probe does not know
ProbeTypes == {"codec", "recv", "other", "garbage"}

\* dataChannel.OnOpen (bridge.go:281-292): the bridge sends {codec, ""}
dataChannelOnOpen(sendOk) ==
    /\ wb.dataChannel = "created"
    /\ wb.pc = "connected"
    /\ wb' = IF sendOk
             THEN [wb EXCEPT !.dataChannel = "open", !.sent = Append(@, "codec")]
             ELSE [wb EXCEPT !.dataChannel = "open", !.errors = @ + 1]
    /\ UNCHANGED <<mq, streamVars, rtspVars, detailVars>>

\* a probe that reports the stream ready as soon as the camera names its codec
probeReadyAtCodec(b, type, parseOk, sendOk) ==
    IF type \in {"codec", "recv"}
    THEN [wb |-> [b EXCEPT !.sent = Append(@, "start")], connected |-> TRUE, err |-> FALSE]
    ELSE [wb |-> b, connected |-> FALSE, err |-> type = "garbage"]

\* WebRTCBridge.probe (bridge.go:509-552) on a string message of the given
\* type; parseOk: the RecvMessage inside a "recv" unmarshals (530-533),
\* sendOk: dataChannel.Send succeeds (554-561).  The result is the bridge
\* after the call and the two values probe returns.
probe(b, type, parseOk, sendOk) ==
    CASE type = "garbage" -> [wb |-> b, connected |-> FALSE, err |-> TRUE]
      [] type = "codec" ->
            IF sendOk
            THEN [wb |-> [b EXCEPT !.sent = Append(@, "start")],
                  connected |-> FALSE, err |-> FALSE]
            ELSE [wb |-> b, connected |-> FALSE, err |-> TRUE]
      [] type = "recv" ->
            IF ~parseOk THEN [wb |-> b, connected |-> FALSE, err |-> TRUE]
            ELSE LET b1 == [b EXCEPT !.ssrc = TRUE]
                 IN  IF sendOk
                     THEN [wb |-> [b1 EXCEPT !.sent = Append(@, "complete")],
                           connected |-> TRUE, err |-> FALSE]
                     ELSE [wb |-> b1, connected |-> FALSE, err |-> TRUE]
      [] OTHER -> [wb |-> b, connected |-> FALSE, err |-> FALSE]

\* dataChannel.OnMessage for a string message (bridge.go:248-254): an error
\* of the probe goes to handleError, a true result releases the waiter
dataChannelOnMessage(type, parseOk, sendOk) ==
    /\ wb.dataChannel = "open"
    /\ wb.pc = "connected"
    /\ Len(wb.rcvd) < MaxProbeMsgs
    /\ LET p == probe([wb EXCEPT !.rcvd = Append(@, type)], type, parseOk, sendOk)
       IN  wb' = IF p.err THEN [p.wb EXCEPT !.errors = @ + 1]
                 ELSE IF p.connected THEN [p.wb EXCEPT !.waiter = "done"]
                 ELSE p.wb
    /\ UNCHANGED <<mq, streamVars, rtspVars, detailVars>>

\* wb.waiter.Wait() returns nil and Start sets connected (bridge.go:149-156)
bridgeStartReady ==
    /\ wb.phase = "waiting"
    /\ wb.waiter = "done"
    /\ wb' = [wb EXCEPT !.phase = "started", !.connected = TRUE]
    /\ UNCHANGED <<mq, streamVars, rtspVars, detailVars>>

\* OnConnectionStateChange(Failed) (bridge.go:296-299) -> handleError
\* (bridge.go:563-567) -> OnError
bridgePcFailed ==
    /\ wb.pc \in {"connecting", "connected"}
    /\ wb' = [wb EXCEPT !.pc = "failed", !.errors = @ + 1]
    /\ UNCHANGED <<mq, streamVars, rtspVars, detailVars>>

\* the broker connection is lost and the library calls
\* MQTTClient.onDisconnect (mqtt.go:113-121)
mqttOnDisconnect ==
    /\ mq.link = "up"
    /\ mq' = [mq EXCEPT !.link = "lost", !.onConnect = FALSE, !.closed = TRUE,
                        !.Connected = IF @ = "pending" THEN "err" ELSE @]
    /\ UNCHANGED <<wb, streamVars, rtspVars, detailVars>>

\* the MQTT library connects again, as SetAutoReconnect(true) (mqtt.go:66)
\* asks it to, and the OnConnect handler is due again
mqttReconnect ==
    /\ mq.link = "lost"
    /\ mq.reconnects < MaxReconnects
    /\ mq' = [mq EXCEPT !.link = "up", !.onConnect = TRUE, !.reconnects = @ + 1]
    /\ UNCHANGED <<wb, streamVars, rtspVars, detailVars>>

\* a disconnect frame for the camera session arrives (mqtt.go:141-142):
\* HandleDisconnect (bridge.go:400-403)
bridgeHandleDisconnect ==
    /\ mq.link = "up"
    /\ wb.phase \in {"waiting", "started"}
    /\ wb.connected
    /\ wb' = [wb EXCEPT !.connected = FALSE]
    /\ UNCHANGED <<mq, streamVars, rtspVars, detailVars>>

\* MQTTCameraClient.SendDisconnect (mqttCamera.go:126-130): sendMqttMessage
\* publishes nothing when the MQTT client is marked closed
\* (mqttCamera.go:185-187)
SendDisconnect == IF mq.closed THEN <<>> ELSE <<"disconnect">>

\* WebRTCBridge.Stop (bridge.go:160-191) on a connected bridge:
\* SendDisconnect (171-173), peerConnection.Close (176-178),
\* mqttClient.Stop (181-183, mqtt.go:79-84), rtpForwarder.Stop (185-187)
bridgeStopConnected ==
    /\ wb.phase = "started"
    /\ wb.connected
    /\ wb' = [wb EXCEPT !.phase = "stopped", !.pc = "none", !.connected = FALSE,
                        !.dataChannel = "none",
                        !.stops = @ \o SendDisconnect
                                    \o <<"peerConnection", "mqttClient", "rtpForwarder">>]
    /\ mq' = [mq EXCEPT !.link = "none", !.onConnect = FALSE, !.closed = TRUE]
    /\ UNCHANGED <<streamVars, rtspVars, detailVars>>

\* WebRTCBridge.Stop on a bridge whose connected flag is false: it returns
\* at once (bridge.go:164-166).  stopStreamInternal calls it after a failed
\* Start (server.go:527-531, 565-568), on a started bridge, and again on a
\* bridge it stopped before.
bridgeStopNotConnected ==
    /\ wb.phase \in {"failed", "started", "stopped"}
    /\ ~wb.connected
    /\ wb' = [wb EXCEPT !.phase = "stopped"]
    /\ UNCHANGED <<mq, streamVars, rtspVars, detailVars>>

NextBridge ==
    \/ bridgeStartMqtt \/ bridgeStartFail \/ mqttOnConnect \/ bridgeStartOffer
    \/ bridgePcConnected \/ bridgeStartReady \/ bridgePcFailed
    \/ \E sendOk \in BOOLEAN : dataChannelOnOpen(sendOk)
    \/ \E type \in ProbeTypes, parseOk \in BOOLEAN, sendOk \in BOOLEAN :
          dataChannelOnMessage(type, parseOk, sendOk)
    \/ mqttOnDisconnect \/ mqttReconnect \/ bridgeHandleDisconnect
    \/ bridgeStopConnected \/ bridgeStopNotConnected

SpecBridge == InitBridge /\ [][NextBridge]_vars

\* C14: for a non-HEVC stream at resolution sd the readiness waiter is
\* released as soon as the peer connection is Connected, and no resolution
\* frame is sent.
C14_SdReadyAtConnected ==
    (~wb.isHEVC /\ wb.resolution = "sd" /\ wb.pc = "connected")
        => (wb.waiter = "done" /\ wb.resolutionFrames = 0)

\* the bridge has published its offer and has not been stopped
BridgeAlive == wb.phase \in {"waiting", "started"}

\* C15: once the bridge has published its offer, a lost MQTT connection is
\* never re-established, and the step that loses it calls the bridge's
\* OnError.
C15_MqttLossIsTerminal ==
    [][/\ (mq.link = "lost" /\ BridgeAlive) => mq'.link # "up"
       /\ (mq.link = "up" /\ mq'.link = "lost" /\ BridgeAlive)
             => wb'.errors = wb.errors + 1]_vars

----------------------------------------------------------------------------
(* The RTSP requests of a connection and the RTP fan-out of its stream *)

MaxSetups == 2

\* the Transport header of a SETUP request: none, "RTP/AVP" with and without
\* a client_port, "RTP/AVP/TCP", and a transport the server does not know
Transports == {"none", "udp", "udp-noport", "tcp", "other"}

\* the track a SETUP URL names
Tracks == {"video", "audio"}

\* the Session header of a request: 0 when it is missing, else the session
\* id it carries; connection c has session id c (generateSessionID,
\* protocol.go:111-115)
SessionHeaders == {0} \cup Conns

\* 'sessionHeader == "" || !strings.Contains(sessionHeader, client.session)'
\* (protocol.go:464)
SessionMismatch(c, h) == h = 0 \/ h # c

\* RTPForwarder.AddTCPClient (forwarder.go:205-235): an existing entry keeps
\* its transport mode and its connections, only the channels are updated
AddTCPClient(m, c) ==
    IF m[c] # NoSink THEN m
    ELSE [m EXCEPT ![c] = [transportMode |-> "tcp", videoConn |-> FALSE,
                           audioConn |-> FALSE]]

\* RTPForwarder.AddUDPClient (forwarder.go:80-160): an existing entry keeps
\* its transport mode and gets the UDP connections it does not have yet
AddUDPClient(m, c, videoRTPPort, audioRTPPort) ==
    IF m[c] # NoSink
    THEN [m EXCEPT ![c].videoConn = @ \/ videoRTPPort,
                   ![c].audioConn = @ \/ audioRTPPort]
    ELSE [m EXCEPT ![c] = [transportMode |-> "udp", videoConn |-> videoRTPPort,
                           audioConn |-> audioRTPPort]]

\* the handler of connection c is in the request loop of handleRTSPProtocol
\* (protocol.go:120-151), or handles the initial request (server.go:286),
\* and reads a request from its socket
ReadsRequest(c) == cpc[c] = "serving" /\ c \notin connClosed

\* RTSPServer.handleSetup (protocol.go:292-459)
handleSetup(c, transport, track) ==
    /\ ReadsRequest(c)
    /\ rc[c].setupCount < MaxSetups
    /\ LET s == cstream[c]
           videoPort == rc[c].videoPort \/ track = "video"
           audioPort == rc[c].audioPort \/ track = "audio"
       IN  CASE transport = "none" ->
                  /\ resp' = Response(c, "SETUP", 400)
                  /\ UNCHANGED <<rc, st>>
             [] transport = "tcp" ->
                  /\ rc' = [rc EXCEPT ![c].transportMode = "tcp",
                                      ![c].setupCount = @ + 1]
                  /\ st' = [st EXCEPT ![s].rtpClients = AddTCPClient(@, c)]
                  /\ resp' = Response(c, "SETUP", 200)
             [] transport = "udp-noport" ->
                  /\ rc' = [rc EXCEPT ![c].transportMode = "udp"]
                  /\ resp' = Response(c, "SETUP", 400)
                  /\ st' = st
             [] transport = "udp" ->
                  /\ rc' = [rc EXCEPT ![c].transportMode = "udp",
                                      ![c].videoPort = videoPort,
                                      ![c].audioPort = audioPort,
                                      ![c].setupCount = @ + 1]
                  /\ st' = [st EXCEPT ![s].rtpClients =
                                         AddUDPClient(@, c, videoPort, audioPort)]
                  /\ resp' = Response(c, "SETUP", 200)
             [] OTHER ->
                  /\ resp' = Response(c, "SETUP", 461)
                  /\ UNCHANGED <<rc, st>>
    /\ UNCHANGED <<srvAll, connVars, bridgeVars, detailVars>>

\* RTSPServer.handlePlay (protocol.go:461-479)
handlePlay(c, sessionHeader) ==
    /\ ReadsRequest(c)
    /\ IF SessionMismatch(c, sessionHeader)
       THEN /\ resp' = Response(c, "PLAY", 454)
            /\ rc' = rc
       ELSE /\ resp' = Response(c, "PLAY", 200)
            /\ rc' = [rc EXCEPT ![c].play = TRUE]
    /\ UNCHANGED <<streamVars, bridgeVars, detailVars>>

\* RTSPServer.handleTeardown (protocol.go:481-490): the Session header is not
\* read; the handler returns to the request loop (protocol.go:150)
handleTeardown(c, sessionHeader) ==
    /\ ReadsRequest(c)
    /\ resp' = Response(c, "TEARDOWN", 200)
    /\ UNCHANGED <<rc, streamVars, bridgeVars, detailVars>>

\* the clients that ForwardVideoPacket / ForwardAudioPacket write to
\* (forwarder.go:279-301, 322-344): a UDP entry with a connection for the
\* track, a TCP entry always
Written(m, track) ==
    {c \in Conns : \/ m[c].transportMode = "tcp"
                   \/ /\ m[c].transportMode = "udp"
                      /\ IF track = "video" THEN m[c].videoConn ELSE m[c].audioConn}

\* the clients of connections cs have been sent a packet
MarkWritten(cs) == [c \in Conns |-> IF c \in cs THEN [rc[c] EXCEPT !.rtp = TRUE] ELSE rc[c]]

\* a video packet arrives on the peer connection (bridge.go:256-268, 452-457):
\* RTPForwarder.ForwardVideoPacket (forwarder.go:262-303)
ForwardVideoPacket(s) ==
    /\ st[s].pcState = "connected"
    /\ \E c \in Conns : st[s].rtpClients[c] # NoSink
    /\ rc' = MarkWritten(Written(st[s].rtpClients, "video"))
    /\ UNCHANGED <<resp, streamVars, bridgeVars, detailVars>>

\* an audio packet arrives on the peer connection (bridge.go:256-268, 467-472):
\* RTPForwarder.ForwardAudioPacket (forwarder.go:305-346)
ForwardAudioPacket(s) ==
    /\ st[s].pcState = "connected"
    /\ \E c \in Conns : st[s].rtpClients[c] # NoSink
    /\ rc' = MarkWritten(Written(st[s].rtpClients, "audio"))
    /\ UNCHANGED <<resp, streamVars, bridgeVars, detailVars>>

NextRtsp ==
    \/ Start
    \/ \E c \in Conns : Accept(c)
    \/ \E c \in Conns : InitialRequestFail(c)
    \/ \E c \in Conns, k \in Keys : getOrCreateStream(c, k)
    \/ \E c \in Conns : addClient(c)
    \/ \E c \in Conns : StreamAddClient(c)
    \/ \E c \in Conns : removeClientLock(c)
    \/ \E c \in Conns : removeClient(c)
    \/ \E s \in Streams : startStreamActive(s)
    \/ \E s \in Streams : startStreamOffer(s)
    \/ \E s \in Streams : pcConnected(s)
    \/ \E s \in Streams : startReady(s)
    \/ \E s \in Streams : bridgeError(s)
    \/ \E c \in Conns, transport \in Transports, track \in Tracks :
          handleSetup(c, transport, track)
    \/ \E c \in Conns, h \in SessionHeaders : handlePlay(c, h)
    \/ \E c \in Conns, h \in SessionHeaders : handleTeardown(c, h)
    \/ \E s \in Streams : ForwardVideoPacket(s)
    \/ \E s \in Streams : ForwardAudioPacket(s)

SpecRtsp == Init /\ [][NextRtsp]_vars

\* C16: no RTP packet is written to a client's sink before a PLAY of that
\* client has been answered with 200.
C16_NoRtpBeforePlay == \A c \in Conns : rc[c].rtp => rc[c].play

\* C17: the step that answers a TEARDOWN with 200 ends the request loop of
\* that connection: the handler goes on to close and deregister the client
\* instead of reading the next request.
C17_TeardownEndsHandler ==
    [][\A c \in Conns :
          ((\E h \in SessionHeaders : handleTeardown(c, h)) /\ resp'.status = 200)
             => cpc'[c] # "serving"]_vars

\* the transport mode a Transport header asks for
ModeOf(transport) ==
    IF transport = "tcp" THEN "tcp"
    ELSE IF transport \in {"udp", "udp-noport"} THEN "udp" ELSE "none"

\* C18: once a client has completed a SETUP its transport mode never
\* changes, and a SETUP that asks for the other mode is answered with 400 and
\* leaves the client's forwarder entry as it was.
C18_TransportModeFixed ==
    [][\A c \in Conns : rc[c].setupCount > 0 =>
          /\ rc'[c].transportMode = rc[c].transportMode
          /\ \A transport \in Transports, track \in Tracks :
                (/\ handleSetup(c, transport, track)
                 /\ ModeOf(transport) \notin {"none", rc[c].transportMode})
                   => /\ resp' = Response(c, "SETUP", 400)
                      /\ st'[cstream[c]].rtpClients[c] = st[cstream[c]].rtpClients[c]]_vars

\* C20: a PLAY or TEARDOWN whose Session header is missing or names another
\* session is answered with 454 and changes no client, stream or forwarder
\* state.
C20_BadSessionIs454 ==
    [][\A c \in Conns, h \in SessionHeaders :
          (SessionMismatch(c, h) /\ (handlePlay(c, h) \/ handleTeardown(c, h)))
             => /\ resp'.to = c /\ resp'.status = 454
                /\ UNCHANGED <<rc, streamVars>>]_vars

\* The steps of SpecRtsp that the server's own goroutines take once they are
\* enabled: the deferred removeClient of a handler that has ended, and
\* startStream.  Each can happen only a bounded number of times, so strong
\* fairness of the group is what the Go scheduler gives each of them.
RtspGoroutineStep ==
    \/ \E c \in Conns : addClient(c) \/ StreamAddClient(c) \/ removeClient(c)
    \/ \E s \in Streams : startStreamActive(s) \/ startStreamOffer(s) \/ startReady(s)

\* the ICE agent of a peer connection ends every connection attempt: it
\* reports Connected or Failed (bridge.go:292-312)
PcSettles == \E s \in Streams : st[s].pcState = "connecting" /\ (pcConnected(s) \/ bridgeError(s))

FairnessRtsp == SF_vars(RtspGoroutineStep) /\ WF_vars(PcSettles)

SpecRtspFair == SpecRtsp /\ FairnessRtsp

\* the request loop of connection c has ended and its deferred removeClient
\* is running
HandlerEnded(c) == cpc[c] = "removing"

\* connection c is closed and in no registry, client set or forwarder
Deregistered(c) ==
    /\ c \notin srvClients
    /\ c \in connClosed
    /\ \A s \in Streams : c \notin st[s].clients /\ st[s].rtpClients[c] = NoSink

\* C19: when the handler of a connection ends, the client is eventually
\* absent from the server's registry, from its stream's client set and from
\* the forwarder, and its connection is closed.
C19_EndedHandlerDeregisters ==
    \A c \in Conns : HandlerEnded(c) ~> Deregistered(c)

----------------------------------------------------------------------------
(* One RTSP session in detail: ports, channels, CSeq, interleaved frames *)

\* the CSeq values of requests
CSeqs == {1, 2}

\* the track a request URL names (protocol.go:299-301)
SessTracks == {"video", "audio", "backchannel"}

\* the client_port of a Transport header; 0: none given
ClientPorts == {0, 5000}

\* a Transport header without "interleaved="
NoInterleaved == -1

\* the first channel of "interleaved=" in a Transport header
Interleaved == {NoInterleaved, 0, 6}

\* the port the OS hands out for a listener on port 0 (ports.go:43-50);
\* 0: every attempt of GetConsecutiveUDPPorts fails
OsPorts == {0, 40000, 40001}

\* the conversion byte(ch) of an int (protocol.go:326, 331)
ToByte(n) == n % 256

\* PortAllocator.GetConsecutiveUDPPorts (ports.go:33-78): the even base port
\* of the listener pair, 0 for the error
GetConsecutiveUDPPorts(osPort) ==
    IF osPort = 0 THEN 0
    ELSE IF osPort % 2 = 1 THEN osPort - 1 ELSE osPort

\* RTPForwarder.SetupUDPBackchannel (forwarder.go:162-203) on the entry r of
\* the session: the entry afterwards, the port returned and the error
SetupUDPBackchannel(r, osPort) ==
    IF ~r.exists \/ r.transportMode # "udp"
    THEN [rtp |-> r, port |-> 0, err |-> TRUE]
    ELSE IF r.backchannelServerPort # 0
    THEN [rtp |-> r, port |-> r.backchannelServerPort, err |-> FALSE]
    ELSE LET basePort == GetConsecutiveUDPPorts(osPort)
         IN  IF basePort = 0 THEN [rtp |-> r, port |-> 0, err |-> TRUE]
             ELSE [rtp |-> [r EXCEPT !.backchannelServerPort = basePort],
                   port |-> basePort, err |-> FALSE]

\* RTPForwarder.AddUDPClient (forwarder.go:80-160) on the entry of the session
RTPClientAddUDP(r, videoRTPPort, audioRTPPort) ==
    IF r.exists
    THEN [r EXCEPT !.videoConn = @ \/ videoRTPPort > 0,
                   !.audioConn = @ \/ audioRTPPort > 0]
    ELSE [r EXCEPT !.exists = TRUE, !.transportMode = "udp",
                   !.videoConn = videoRTPPort > 0, !.audioConn = audioRTPPort > 0]

\* RTPForwarder.AddTCPClient (forwarder.go:205-235) on the entry of the session
RTPClientAddTCP(r, videoRTPChannel, audioRTPChannel, backAudioRTPChannel) ==
    [r EXCEPT !.exists = TRUE,
              !.transportMode = IF r.exists THEN @ ELSE "tcp",
              !.videoRTPChannel = videoRTPChannel,
              !.audioRTPChannel = audioRTPChannel,
              !.backAudioRTPChannel = backAudioRTPChannel]

\* sendRTSPResponse (protocol.go:39-83) in answer to the request with CSeq
\* request: the headers are written as given, CSeq among them or not
sendRTSPResponse(method, request, statusCode, cseqHeader, serverPort) ==
    [method |-> method, status |-> statusCode, request |-> request,
     cseq |-> cseqHeader, serverPort |-> serverPort]

\* an error response of handleSetup and handlePlay: sendRTSPResponse with nil
\* headers (protocol.go:295, 364, 389, 408, 435, 442, 465)
ErrorResponse(method, request, statusCode) ==
    sendRTSPResponse(method, request, statusCode, 0, 0)

\* a 200 response with "CSeq": strconv.Itoa(request.CSeq) among its headers
\* (protocol.go:452-458, 468-475, 482-487)
OkResponse(method, request, serverPort) ==
    sendRTSPResponse(method, request, 200, request, serverPort)

\* handleSetup, TCP branch (protocol.go:308-367)
SetupTCP(s, cseq, track, interleaved) ==
    LET rtpChannel ==
            IF interleaved # NoInterleaved THEN ToByte(interleaved)
            ELSE CASE track = "video" -> 0 [] track = "audio" -> 2 [] OTHER -> 4
        c1 == [s.client EXCEPT !.transportMode = "tcp",
                  !.videoChannel = IF track = "video" THEN rtpChannel ELSE @,
                  !.audioChannel = IF track = "audio" THEN rtpChannel ELSE @,
                  !.backAudioChannel = IF track = "backchannel" THEN rtpChannel ELSE @]
    IN  [s EXCEPT !.client = [c1 EXCEPT !.setupCount = @ + 1],
                  !.rtp = RTPClientAddTCP(@, c1.videoChannel, c1.audioChannel,
                                          c1.backAudioChannel),
                  !.resp = OkResponse("SETUP", cseq, 0),
                  !.done = @ \cup {<<track, "tcp">>}]

\* handleSetup, UDP branch (protocol.go:369-439)
SetupUDP(s, cseq, track, clientRTPPort, osPort) ==
    LET c1 == [s.client EXCEPT !.transportMode = "udp"]
        c2 == [c1 EXCEPT !.videoPort = IF track = "video" THEN clientRTPPort ELSE @,
                         !.audioPort = IF track = "audio" THEN clientRTPPort ELSE @]
        back == SetupUDPBackchannel(s.rtp, osPort)
    IN  IF clientRTPPort = 0
        THEN [s EXCEPT !.client = c1, !.resp = ErrorResponse("SETUP", cseq, 400)]
        ELSE IF track = "backchannel" /\ back.err
        THEN [s EXCEPT !.client = c1, !.resp = ErrorResponse("SETUP", cseq, 500)]
        ELSE LET r1 == IF track = "backchannel" THEN back.rtp ELSE s.rtp
                 serverRTPPort == IF track = "backchannel" THEN back.port ELSE 0
             IN  [s EXCEPT !.client = [c2 EXCEPT !.setupCount = @ + 1],
                           !.rtp = RTPClientAddUDP(r1, c2.videoPort, c2.audioPort),
                           !.resp = OkResponse("SETUP", cseq, serverRTPPort),
                           !.done = @ \cup {<<track, "udp">>}]

\* the variables that the steps of one session leave alone
notSessVars == <<streamVars, bridgeVars, rtspVars, wire, fan, sdp>>

MaxSessSetups == 3

\* the Transport header of a SETUP of the session
SessTransports == {"none", "udp", "tcp", "other"}

\* RTSPServer.handleSetup (protocol.go:292-459) for the session
sessionSetup(cseq, track, transport, clientPort, interleaved, osPort) ==
    /\ sess.open
    /\ sess.client.setupCount < MaxSessSetups
    /\ sess' = CASE transport = "none" -> [sess EXCEPT !.resp = ErrorResponse("SETUP", cseq, 400)]
                 [] transport = "tcp" -> SetupTCP(sess, cseq, track, interleaved)
                 [] transport = "udp" -> SetupUDP(sess, cseq, track, clientPort, osPort)
                 [] OTHER -> [sess EXCEPT !.resp = ErrorResponse("SETUP", cseq, 461)]
    /\ UNCHANGED notSessVars

\* RTSPServer.handlePlay (protocol.go:461-479); mismatch: the Session header
\* is missing or does not contain client.session
sessionPlay(cseq, mismatch) ==
    /\ sess.open
    /\ sess' = [sess EXCEPT !.resp = IF mismatch THEN ErrorResponse("PLAY", cseq, 454)
                                     ELSE OkResponse("PLAY", cseq, 0)]
    /\ UNCHANGED notSessVars

\* RTSPServer.handleTeardown (protocol.go:481-490)
sessionTeardown(cseq) ==
    /\ sess.open
    /\ sess' = [sess EXCEPT !.resp = OkResponse("TEARDOWN", cseq, 0)]
    /\ UNCHANGED notSessVars

\* RTSPServer.handleUnsupportedMethod (protocol.go:492-498)
sessionUnsupportedMethod(cseq) ==
    /\ sess.open
    /\ sess' = [sess EXCEPT !.resp = sendRTSPResponse("OTHER", cseq, 501, cseq, 0)]
    /\ UNCHANGED notSessVars

\* request.CSeq of a request without a CSeq header: the zero value of the
\* field (protocol.go:205-210, 236-241)
NoCSeq == 0

\* RTSPServer.handleOptions (protocol.go:270-277); the response repeats
\* request.CSeq
sessionOptions(cseq) ==
    /\ sess.open
    /\ sess' = [sess EXCEPT !.resp = OkResponse("OPTIONS", cseq, 0)]
    /\ UNCHANGED notSessVars

\* the request loop reads a request line that does not split into three
\* parts: parseRTSPRequestFromReader returns an error (protocol.go:200-203),
\* the loop ends without a response (protocol.go:142-148), and removeClient
\* drops the forwarder entry and closes the connection (protocol.go:118,
\* server.go:373-386)
sessionMalformed ==
    /\ sess.open
    /\ sess' = [sess EXCEPT !.resp = sendRTSPResponse("MALFORMED", NoCSeq, 0, 0, 0),
                            !.open = FALSE,
                            !.rtp = NewSession.rtp]
    /\ UNCHANGED notSessVars

\* the channels of inbound interleaved frames
FrameChannels == {0, 4, 6}

\* RTSPServer.handleInterleavedRTP (protocol.go:154-191) on a frame whose
\* header and data were read: "sink" when the packet is handed to
\* OnBackchannelAudio, "error" when it does not parse, "dropped" otherwise
handleInterleavedRTP(client, channel, parses) ==
    IF channel = client.backAudioChannel
    THEN IF parses THEN "sink" ELSE "error"
    ELSE "dropped"

\* the request loop reads an interleaved frame (protocol.go:132-139); an
\* error ends the loop, and removeClient drops the forwarder entry and
\* closes the connection (protocol.go:118, server.go:373-386)
sessionInterleavedRTP(channel, parses) ==
    /\ sess.open
    /\ LET result == handleInterleavedRTP(sess.client, channel, parses)
       IN  sess' = [sess EXCEPT !.frame = [channel |-> channel, result |-> result],
                                !.open = result # "error",
                                !.rtp = IF result = "error" THEN NewSession.rtp ELSE @]
    /\ UNCHANGED notSessVars

\* what ForwardVideoPacket / ForwardAudioPacket write for the entry r
\* (forwarder.go:279-301, 322-344)
PacketWritten(r, track) ==
    LET conn == IF track = "video" THEN r.videoConn ELSE r.audioConn
        channel == IF track = "video" THEN r.videoRTPChannel ELSE r.audioRTPChannel
    IN  IF r.transportMode = "udp" /\ conn
        THEN [track |-> track, via |-> "udp", channel |-> 0]
        ELSE IF r.transportMode = "tcp"
        THEN [track |-> track, via |-> "tcp", channel |-> channel]
        ELSE [track |-> track, via |-> "none", channel |-> 0]

\* RTPForwarder.ForwardVideoPacket (forwarder.go:262-303) with the session's
\* entry in rf.clients
sessionForwardVideo ==
    /\ sess.rtp.exists
    /\ sess' = [sess EXCEPT !.out = PacketWritten(sess.rtp, "video")]
    /\ UNCHANGED notSessVars

\* RTPForwarder.ForwardAudioPacket (forwarder.go:305-346) with the session's
\* entry in rf.clients
sessionForwardAudio ==
    /\ sess.rtp.exists
    /\ sess' = [sess EXCEPT !.out = PacketWritten(sess.rtp, "audio")]
    /\ UNCHANGED notSessVars

NextSession ==
    \/ \E cseq \in CSeqs, track \in SessTracks :
          \/ \E interleaved \in Interleaved :
                sessionSetup(cseq, track, "tcp", 0, interleaved, 0)
          \/ \E clientPort \in ClientPorts, osPort \in OsPorts :
                sessionSetup(cseq, track, "udp", clientPort, NoInterleaved, osPort)
          \/ \E transport \in SessTransports \ {"tcp", "udp"} :
                sessionSetup(cseq, track, transport, 0, NoInterleaved, 0)
    \/ \E cseq \in CSeqs, mismatch \in BOOLEAN : sessionPlay(cseq, mismatch)
    \/ \E cseq \in CSeqs : sessionTeardown(cseq)
    \/ \E cseq \in CSeqs : sessionUnsupportedMethod(cseq)
    \/ \E cseq \in CSeqs \cup {NoCSeq} : sessionOptions(cseq)
    \/ sessionMalformed
    \/ \E channel \in FrameChannels, parses \in BOOLEAN :
          sessionInterleavedRTP(channel, parses)
    \/ sessionForwardVideo
    \/ sessionForwardAudio

SpecSession == Init /\ [][NextSession]_vars

\* C21: a UDP SETUP of the backchannel track with a client_port, for which
\* the port allocator finds a listener pair, is answered 200 with an even
\* server port that is the port of the session's backchannel listener.
C21_BackchannelServerPorts ==
    [][\A cseq \in CSeqs, clientPort \in ClientPorts \ {0}, osPort \in OsPorts \ {0} :
          sessionSetup(cseq, "backchannel", "udp", clientPort, NoInterleaved, osPort)
             => /\ sess'.resp.status = 200
                /\ sess'.resp.serverPort > 0
                /\ sess'.resp.serverPort % 2 = 0
                /\ sess'.resp.serverPort = sess'.rtp.backchannelServerPort]_vars

\* the session has completed a SETUP of the backchannel track over TCP, and
\* channel is the RTP channel that SETUP assigned
BackchannelSetUp(channel) ==
    <<"backchannel", "tcp">> \in sess.done /\ channel = sess.client.backAudioChannel

\* C22: an inbound interleaved frame reaches the bridge's back-channel sink
\* only on the channel that a completed backchannel SETUP assigned; a frame
\* on any other channel is dropped without error and the connection stays
\* open.
C22_BackchannelNeedsSetup ==
    [][\A channel \in FrameChannels, parses \in BOOLEAN :
          sessionInterleavedRTP(channel, parses) =>
             /\ sess'.frame.result = "sink" => BackchannelSetUp(channel)
             /\ ~BackchannelSetUp(channel) =>
                   (sess'.frame.result = "dropped" /\ sess'.open)]_vars

\* every SETUP the session has completed used RTP/AVP/TCP
TcpOnly == sess.done # {} /\ \A d \in sess.done : d[2] = "tcp"

\* C25: for a client all of whose SETUPs used TCP the forwarder holds no UDP
\* socket or listener, and every video (audio) packet forwarded to it is
\* written on the TCP connection with the channel of its video (audio) SETUP.
C25_TcpClientStaysOnTcp ==
    [][/\ TcpOnly' =>
             /\ ~sess'.rtp.videoConn /\ ~sess'.rtp.audioConn
             /\ sess'.rtp.backchannelServerPort = 0
       /\ (TcpOnly /\ sessionForwardVideo) =>
             /\ sess'.out.via = "tcp"
             /\ <<"video", "tcp">> \in sess.done
             /\ sess'.out.channel = sess.client.videoChannel
       /\ (TcpOnly /\ sessionForwardAudio) =>
             /\ sess'.out.via = "tcp"
             /\ <<"audio", "tcp">> \in sess.done
             /\ sess'.out.channel = sess.client.audioChannel]_vars

\* C30: every response carries a CSeq header equal to the CSeq of the
\* request it answers.
C30_ResponseEchoesCSeq ==
    sess.resp.status # 0 => sess.resp.cseq = sess.resp.request

\* C31: a request with a malformed request line, and a request without a
\* CSeq header, are answered with 400 and the connection stays open.
C31_BadRequestIs400 ==
    [][(sessionMalformed \/ sessionOptions(NoCSeq)) =>
          (sess'.resp.status = 400 /\ sess'.open)]_vars

\* a SETUP request of the session is handled
sessionSetupRequest ==
    \E cseq \in CSeqs, track \in SessTracks :
       \/ \E interleaved \in Interleaved :
             sessionSetup(cseq, track, "tcp", 0, interleaved, 0)
       \/ \E clientPort \in ClientPorts, osPort \in OsPorts :
             sessionSetup(cseq, track, "udp", clientPort, NoInterleaved, osPort)
       \/ \E transport \in SessTransports \ {"tcp", "udp"} :
             sessionSetup(cseq, track, transport, 0, NoInterleaved, 0)

\* C39: a SETUP answered with 400, 461 or 500 leaves the client's transport
\* mode, ports, channels and setup count and its forwarder entry as they
\* were.
C39_FailedSetupChangesNothing ==
    [][(sessionSetupRequest /\ sess'.resp.status \in {400, 461, 500}) =>
          (sess'.client = sess.client /\ sess'.rtp = sess.rtp)]_vars

\* the session has completed a SETUP of the track
TrackSetUp(track) == \E mode \in {"udp", "tcp"} : <<track, mode>> \in sess.done

\* C40: the forwarder writes a video (audio) packet to the client only if
\* the client has completed a SETUP of the video (audio) track.
C40_OnlySetUpTracks ==
    [][/\ (sessionForwardVideo /\ sess'.out.via # "none") => TrackSetUp("video")
       /\ (sessionForwardAudio /\ sess'.out.via # "none") => TrackSetUp("audio")]_vars

----------------------------------------------------------------------------
(* The writes of the forwarder and of the request handler to client sockets *)

MaxPackets == 2

\* the length of a marshalled RTP packet: a bare 12-byte header, and the
\* values around the largest length that fits 16 bits
PayloadLens == {12, 65535, 65536}

\* the byte '$'
Magic == 36

\* the byte(x) conversion of an int (forwarder.go:454-455)
ByteOf(x) == x % 256

\* a framing that writes the header and the data in two conn.Write calls
sendInterleavedRTPTwoWrites(src, channel, dataLen) ==
    << [src |-> src, first |-> TRUE, last |-> FALSE,
        header |-> <<Magic, channel, ByteOf(dataLen \div 256), ByteOf(dataLen)>>,
        data |-> 0],
       [src |-> src, first |-> FALSE, last |-> TRUE, header |-> <<>>, data |-> dataLen] >>

\* RTPForwarder.sendInterleavedRTP (forwarder.go:449-465) for packet src of
\* dataLen bytes: the conn.Write calls it makes, here one, of the 4-byte
\* header followed by the data
sendInterleavedRTP(src, channel, dataLen) ==
    << [src |-> src, first |-> TRUE, last |-> TRUE,
        header |-> <<Magic, channel, ByteOf(dataLen \div 256), ByteOf(dataLen)>>,
        data |-> dataLen] >>

\* the conn.Write of sendRTSPResponse (protocol.go:81): the whole response
\* in one call
ResponseWrite(src) ==
    << [src |-> src, first |-> TRUE, last |-> TRUE, header |-> <<>>, data |-> 0] >>

\* the channel of the TCP client for a track (server.go:275-276)
ChannelOf(w) == IF w = "video" THEN 0 ELSE 2

\* the writes of one ForwardVideoPacket / ForwardAudioPacket call
\* (forwarder.go:279-301, 322-344) for packet src = <<track, number>>, with
\* the clients ranged over in the order tcpFirst gives
ForwardWrites(src, dataLen, tcpFirst) ==
    LET tcp == [i \in 1..Len(sendInterleavedRTP(src, ChannelOf(src[1]), dataLen)) |->
                   [sink |-> "tcp",
                    chunk |-> sendInterleavedRTP(src, ChannelOf(src[1]), dataLen)[i]]]
        udp == << [sink |-> "udp", chunk |-> src] >>
    IN  IF tcpFirst THEN tcp \o udp ELSE udp \o tcp

\* the loop that made its calls without waiting for them to return
CallNotAwaited(calls) == TRUE

\* the loop of handleVideoTrack / handleAudioTrack and of the request
\* handler goes on to its next packet when the call for the last one has
\* returned (bridge.go:449-457, protocol.go:120-151)
CallReturned(calls) == calls = {}

notWireVars == <<streamVars, bridgeVars, rtspVars, sess, fan, sdp>>

\* track.ReadRTP returns packet number wire.next[w] of the track and
\* ForwardVideoPacket / ForwardAudioPacket is called with it
\* (bridge.go:449-457, 464-472)
readRTP(w, dataLen, tcpFirst) ==
    /\ w \in {"video", "audio"}
    /\ wire.next[w] <= MaxPackets
    /\ CallReturned(wire.calls[w])
    /\ LET src == <<w, wire.next[w]>>
       IN  wire' = [wire EXCEPT !.next[w] = @ + 1,
                                !.calls[w] = @ \cup {[src |-> src,
                                     writes |-> ForwardWrites(src, dataLen, tcpFirst)]}]
    /\ UNCHANGED notWireVars

\* the request handler of the TCP client answers a request: sendRTSPResponse
\* (protocol.go:39-83)
respond ==
    /\ wire.next["rtsp"] <= MaxPackets
    /\ CallReturned(wire.calls["rtsp"])
    /\ LET src == <<"rtsp", wire.next["rtsp"]>>
       IN  wire' = [wire EXCEPT !.next["rtsp"] = @ + 1,
                                !.calls["rtsp"] = @ \cup {[src |-> src,
                                     writes |-> [i \in 1..Len(ResponseWrite(src)) |->
                                        [sink |-> "tcp", chunk |-> ResponseWrite(src)[i]]]]}]
    /\ UNCHANGED notWireVars

\* a call of goroutine w makes its next write: net.Conn.Write appends the
\* bytes of one call to the socket without bytes of another call in between
connWrite(w) ==
    \E call \in wire.calls[w] :
       LET wr == Head(call.writes)
           rest == [call EXCEPT !.writes = Tail(@)]
           left == IF rest.writes = <<>> THEN wire.calls[w] \ {call}
                   ELSE (wire.calls[w] \ {call}) \cup {rest}
       IN  /\ wire' = IF wr.sink = "tcp"
                      THEN [wire EXCEPT !.stream = Append(@, wr.chunk),
                                        !.calls[w] = left]
                      ELSE [wire EXCEPT !.udp[w] = Append(@, wr.chunk[2]),
                                        !.calls[w] = left]
           /\ UNCHANGED notWireVars

NextWire ==
    \/ \E w \in {"video", "audio"}, dataLen \in PayloadLens, tcpFirst \in BOOLEAN :
          readRTP(w, dataLen, tcpFirst)
    \/ respond
    \/ \E w \in Writers : connWrite(w)

SpecWire == Init /\ [][NextWire]_vars

\* the chunks of the TCP stream that are interleaved frames
Frames == {i \in DOMAIN wire.stream : wire.stream[i].header # <<>>}

\* C23: every interleaved frame on the TCP connection starts with 0x24 and
\* the channel, and its 16-bit big-endian length field equals the number of
\* payload bytes that follow.
C23_FrameLengthMatches ==
    \A i \in Frames :
       LET f == wire.stream[i]
       IN  /\ f.header[1] = Magic
           /\ f.header[2] = ChannelOf(f.src[1])
           /\ f.header[3] * 256 + f.header[4] = f.data

\* C24: on the TCP connection the bytes of one frame or response are
\* contiguous: a chunk that does not end its message is followed by the next
\* chunk of the same message.
C24_FramesContiguous ==
    \A i \in DOMAIN wire.stream :
       /\ wire.stream[i].first \/ i > 1
       /\ i < Len(wire.stream) =>
             IF wire.stream[i].last THEN wire.stream[i + 1].first
             ELSE /\ wire.stream[i + 1].src = wire.stream[i].src
                  /\ ~wire.stream[i + 1].first

\* C24 witness: a response lies between two frames of different tracks on
\* the TCP connection
C24_Witness ==
    \E i \in DOMAIN wire.stream :
       /\ i + 2 <= Len(wire.stream)
       /\ wire.stream[i].src[1] = "video"
       /\ wire.stream[i + 1].src[1] = "rtsp"
       /\ wire.stream[i + 2].src[1] = "audio"

\* the packet numbers of track w written to the TCP connection, in order
TcpOrder(w) ==
    LET idx == {i \in DOMAIN wire.stream : wire.stream[i].src[1] = w /\ wire.stream[i].first}
    IN  [i \in idx |-> wire.stream[i].src[2]]

\* C28: on each sink the packets of one track are written in the order in
\* which the forwarder received them.
C28_PacketsInOrder ==
    \A w \in {"video", "audio"} :
       /\ \A i, j \in DOMAIN TcpOrder(w) : i < j => TcpOrder(w)[i] < TcpOrder(w)[j]
       /\ \A i, j \in DOMAIN wire.udp[w] : i < j => wire.udp[w][i] < wire.udp[w][j]

\* C28 witness: both packets of the video track have been written to both
\* sinks
C28_Witness ==
    /\ Len(wire.udp["video"]) = MaxPackets
    /\ Cardinality(DOMAIN TcpOrder("video")) = MaxPackets

----------------------------------------------------------------------------
(* The client table of the forwarder: fan-out and the idle reaper *)

MaxClock == 3

\* the timeouts CleanupInactiveClients is called with, in clock ticks
Timeouts == {1, 2}

notFanVars == <<streamVars, bridgeVars, rtspVars, sess, wire, sdp>>

FanRegistered == {s \in Sinks : fan.clients[s].registered}

\* a forward that drops the clients whose write failed
ForwardToDropping(clients, fails, now) ==
    [s \in Sinks |->
        IF ~clients[s].registered \/ s \in fails THEN NoFanClient
        ELSE [clients[s] EXCEPT !.lastActivity = now, !.lastWritten = now, !.out = "ok"]]

\* the loop over rf.clients of ForwardVideoPacket / ForwardAudioPacket
\* (forwarder.go:278-302, 321-345): every client is stamped with the time
\* (279, 322), then written to; the write of the clients in fails returns
\* an error, which is logged (284, 293)
ForwardTo(clients, fails, now) ==
    [s \in Sinks |->
        IF ~clients[s].registered THEN clients[s]
        ELSE [clients[s] EXCEPT !.lastActivity = now,
                                !.lastWritten = IF s \in fails THEN @ ELSE now,
                                !.out = IF s \in fails THEN "failed" ELSE "ok"]]

\* AddTCPClient / AddUDPClient (forwarder.go:80-158, 205-235): a new client,
\* or an existing one, is stamped with the time
fanAddClient(s) ==
    /\ fan.active
    /\ fan' = [fan EXCEPT !.clients[s] =
                  IF @.registered THEN [@ EXCEPT !.lastActivity = fan.now]
                  ELSE [registered |-> TRUE, lastActivity |-> fan.now,
                        lastWritten |-> fan.now, out |-> "none"]]
    /\ UNCHANGED notFanVars

\* RemoveClient (forwarder.go:237-260)
fanRemoveClient(s) ==
    /\ fan.clients[s].registered
    /\ fan' = [fan EXCEPT !.clients[s] = NoFanClient]
    /\ UNCHANGED notFanVars

\* time passes
fanTick ==
    /\ fan.now < MaxClock
    /\ fan' = [fan EXCEPT !.now = @ + 1]
    /\ UNCHANGED notFanVars

\* ForwardVideoPacket (forwarder.go:262-303)
fanForwardVideo(fails) ==
    /\ fan.active
    /\ fails \subseteq FanRegistered
    /\ fan' = [fan EXCEPT !.clients = ForwardTo(@, fails, fan.now), !.pkt = "video"]
    /\ UNCHANGED notFanVars

\* ForwardAudioPacket (forwarder.go:305-346)
fanForwardAudio(fails) ==
    /\ fan.active
    /\ fails \subseteq FanRegistered
    /\ fan' = [fan EXCEPT !.clients = ForwardTo(@, fails, fan.now), !.pkt = "audio"]
    /\ UNCHANGED notFanVars

\* CleanupInactiveClients (forwarder.go:371-404)
CleanupInactiveClients(timeout) ==
    /\ fan' = [fan EXCEPT !.clients =
                  [s \in Sinks |->
                      IF @[s].registered /\ fan.now - @[s].lastActivity > timeout
                      THEN NoFanClient ELSE @[s]]]
    /\ UNCHANGED notFanVars

\* the stream is stopped: RTPForwarder.Stop removes every client
\* (forwarder.go:348-363)
fanStop ==
    /\ fan.active
    /\ fan' = [fan EXCEPT !.active = FALSE,
                          !.clients = [s \in Sinks |-> NoFanClient]]
    /\ UNCHANGED notFanVars

NextFan ==
    \/ \E s \in Sinks : fanAddClient(s)
    \/ \E s \in Sinks : fanRemoveClient(s)
    \/ fanTick
    \/ \E fails \in SUBSET Sinks : fanForwardVideo(fails)
    \/ \E fails \in SUBSET Sinks : fanForwardAudio(fails)
    \/ \E timeout \in Timeouts : CleanupInactiveClients(timeout)
    \/ fanStop

SpecFan == Init /\ [][NextFan]_vars

\* C26: forwarding a packet leaves the set of registered clients as it was;
\* when the write to a sink fails, every other registered sink is still
\* written and the stream is not stopped.
C26_ForwardKeepsClients ==
    [][\A fails \in SUBSET Sinks :
          (fanForwardVideo(fails) \/ fanForwardAudio(fails)) =>
             /\ {s \in Sinks : fan'.clients[s].registered} = FanRegistered
             /\ \A s \in FanRegistered \ fails : fan'.clients[s].out = "ok"
             /\ fan'.active]_vars

\* C26 witness: a packet has been forwarded, one sink's write failed and the
\* other sink's write succeeded
C26_Witness ==
    /\ fan.pkt # "none"
    /\ fan.clients["s1"].registered /\ fan.clients["s1"].out = "failed"
    /\ fan.clients["s2"].registered /\ fan.clients["s2"].out = "ok"

\* C27: CleanupInactiveClients removes exactly the sinks whose last
\* successful write is more than timeout ago.
C27_ReaperRemovesIdle ==
    [][\A timeout \in Timeouts :
          CleanupInactiveClients(timeout) =>
             {s \in Sinks : fan'.clients[s].registered}
                = {s \in FanRegistered : ~(fan.now - fan.clients[s].lastWritten > timeout)}]_vars

----------------------------------------------------------------------------
(* The skill of a camera: the SDP of DESCRIBE and the bridge's stream settings *)

MaxVideos == 2

\* the values of VideoSkill.StreamType, VideoSkill.CodecType (4 is HEVC) and
\* of the width and height in a skill
StreamTypes == {1, 2, 4}
CodecTypes == {2, 4}
Dims == {<<640, 360>>, <<1280, 720>>, <<1920, 1080>>}

VideoSkills ==
    [StreamType : StreamTypes, CodecType : CodecTypes, Dim : Dims]

\* the lists Skill.Videos ranges over
Skills == UNION {[1..n -> VideoSkills] : n \in 0..MaxVideos}

\* res := video.Width * video.Height (part_006:18)
ResOf(video) == video.Dim[1] * video.Dim[2]

\* the loop of GetStreamType (part_006:17-31) over videos from index i, with
\* acc the four variables it keeps
RECURSIVE StreamTypeLoop(_, _, _)
StreamTypeLoop(videos, i, acc) ==
    IF i > Len(videos) THEN acc
    ELSE LET res == ResOf(videos[i])
             hi == IF res > acc.highestRes
                   THEN [acc EXCEPT !.highestRes = res,
                                    !.highestResType = videos[i].StreamType]
                   ELSE acc
             lo == IF hi.lowestRes = 0 \/ res < hi.lowestRes
                   THEN [hi EXCEPT !.lowestRes = res,
                                   !.lowestResType = videos[i].StreamType]
                   ELSE hi
         IN  StreamTypeLoop(videos, i + 1, lo)

\* tuya.GetStreamType (part_006:3-42)
GetStreamType(videos, streamResolution) ==
    LET defaultStreamType == 1
        acc == StreamTypeLoop(videos, 1,
                  [highestRes |-> 0, highestResType |-> defaultStreamType,
                   lowestRes |-> 0, lowestResType |-> defaultStreamType])
    IN  IF Len(videos) = 0 THEN defaultStreamType
        ELSE CASE streamResolution = "hd" -> acc.highestResType
               [] streamResolution = "sd" -> acc.lowestResType
               [] OTHER -> defaultStreamType

\* the videos of the skill with the stream type given, in the skill's order
WithStreamType(videos, streamType) ==
    {i \in DOMAIN videos : videos[i].StreamType = streamType}

\* the first index of a non-empty set of indices
FirstOf(idx) == CHOOSE i \in idx : \A j \in idx : i <= j

\* tuya.IsHEVC (part_006:44-52)
IsHEVC(videos, streamType) ==
    IF WithStreamType(videos, streamType) = {} THEN FALSE
    ELSE videos[FirstOf(WithStreamType(videos, streamType))].CodecType = 4

\* the video section of RTSPServer.generateSDP (protocol.go:500-554) for a
\* DESCRIBE on the stream of the resolution given: the stream type is that
\* of "hd" (protocol.go:523)
generateSDP(videos, streamResolution) ==
    IF Len(videos) > 0
    THEN LET streamType == GetStreamType(videos, "hd")
         IN  IF WithStreamType(videos, streamType) = {} THEN "none"
             ELSE IF IsHEVC(videos, streamType) THEN "H265" ELSE "H264"
    ELSE "H264"

notSdpVars == <<streamVars, bridgeVars, rtspVars, sess, wire, fan>>

InitSdp ==
    /\ ServerInit
    /\ wb = NewWebRTCBridge("hd", FALSE)
    /\ mq = NoMqttClient
    /\ rc = [c \in Conns |-> NewRTSPClient]
    /\ resp = NoResponse
    /\ sess = NewSession /\ wire = NewWire /\ fan = NewFan
    /\ \E videos \in Skills : sdp = NewSdp(videos)

\* RTSPServer.handleDescribe (protocol.go:279-291) on the stream of the
\* resolution the request's path names
describe(streamResolution) ==
    /\ sdp' = [sdp EXCEPT !.path = streamResolution,
                          !.codec = generateSDP(sdp.skill, streamResolution)]
    /\ UNCHANGED notSdpVars

\* the stream settings of WebRTCBridge.Start (bridge.go:124-134) for the
\* stream of the resolution given
streamSettings(resolution) ==
    /\ sdp' = [sdp EXCEPT !.resolution = resolution,
                          !.streamType = GetStreamType(sdp.skill, resolution),
                          !.isHEVC = IsHEVC(sdp.skill, GetStreamType(sdp.skill, resolution))]
    /\ UNCHANGED notSdpVars

NextSdp ==
    \/ \E streamResolution \in Resolutions : describe(streamResolution)
    \/ \E resolution \in Resolutions : streamSettings(resolution)

SpecSdp == InitSdp /\ [][NextSdp]_vars

\* the codecs of the skill videos whose resolution no other video is below
LowestCodecs(videos) ==
    {IF videos[i].CodecType = 4 THEN "H265" ELSE "H264" :
        i \in {i \in DOMAIN videos : \A j \in DOMAIN videos : ResOf(videos[i]) <= ResOf(videos[j])}}

\* C29: for a skill with videos, the SDP that DESCRIBE returns on the sd
\* stream names the codec of the lowest-resolution skill video, which is the
\* codec the bridge of the sd stream selects.
C29_SdpOfSdStream ==
    (sdp.path = "sd" /\ Len(sdp.skill) > 0) =>
       /\ sdp.codec \in LowestCodecs(sdp.skill)
       /\ sdp.resolution = "sd" => sdp.codec = (IF sdp.isHEVC THEN "H265" ELSE "H264")

----------------------------------------------------------------------------
(* Locks of the server and of its streams *)

\* this step writes one of the fields of stream s that cs.mutex guards:
\* active, connecting, clients, or the shutdownTimer pointer
GuardedWrite(s) ==
    \/ st'[s].active # st[s].active
    \/ st'[s].connecting # st[s].connecting
    \/ st'[s].clients # st[s].clients
    \/ (st'[s].shutdownTimer = "nil") # (st[s].shutdownTimer = "nil")

\* startStream holds cs.mutex of stream s (server.go:519-520)
StartHoldsMutex(s) == st[s].startPhase = "waiting"

\* the stopStreamInternal that OnError called on stream s has cleared the
\* flags and has not returned (server.go:346, 550-575)
ErrorStopRunning(s) == st[s].onErr \in {"stop2", "stop3"}

\* C32: the guarded fields of a stream are written under its lock, so
\* stopStreamInternal does not overlap with another operation on the
\* stream: while startStream holds the lock only startStream writes the
\* fields, and while a stopStreamInternal is running no other task does.
C32_StreamLockSerializes ==
    [][\A s \in Streams :
          GuardedWrite(s) =>
             /\ StartHoldsMutex(s) => startReady(s)
             /\ ErrorStopRunning(s) => (onErrorStopTimer(s) \/ onErrorStopBridge(s))]_vars

\* the stream whose lock the holder of the server lock needs next:
\* removeClient calls client.stream.RemoveClient (server.go:377-381),
\* Stop and cleanupInactiveStreams call stream.Stop (server.go:152-154, 440)
NeededByServerLockHolder ==
    {cstream[c] : c \in {c \in Conns : cpc[c] = "removing"}}
       \cup (IF stopper.phase = "sweep" THEN {stopper.cur} ELSE {})

\* C33: no lock is held across outbound I/O: the stream lock is not held
\* while the bridge start negotiates, and the holder of the server lock is
\* not kept waiting by a stream whose start is outstanding.
C33_NoLockAcrossIO ==
    /\ \A s \in Streams : ~(StartHoldsMutex(s) /\ st[s].pcState = "connecting")
    /\ \A s \in NeededByServerLockHolder : ~StartHoldsMutex(s)

\* this step starts the goroutine that removes stream s from the registry
\* (server.go:571-575)
RemovalScheduled(s) == st'[s].rmPending > st[s].rmPending

\* the holder of the server lock waits for the lock of stream s, which
\* startStream holds inside a bridge start that can no longer complete: the
\* peer connection has failed and the waiter was not released
Deadlocked(s) ==
    /\ s \in NeededByServerLockHolder
    /\ StartHoldsMutex(s)
    /\ st[s].waiter = "pending"
    /\ st[s].pcState = "failed"

\* C34: the server lock is taken before a stream lock: the task that stops
\* a stream under the stream lock leaves the registry and the server lock
\* alone and hands the removal to another task; and no state has tasks
\* blocked for good on the server lock, a stream lock and a bridge start.
C34_ServerLockFirst ==
    [][/\ \A s \in Streams :
             RemovalScheduled(s) => (registry' = registry /\ smutex' = smutex)
       /\ \A s \in Streams : ~Deadlocked(s)']_vars

----------------------------------------------------------------------------
(* Registry and bridge resources *)

\* stream s is Active or Connecting or has an attached client
InUse(s) == st[s].key # NoKey /\ (st[s].active \/ st[s].connecting \/ st[s].clients # {})

\* C35: a stream that is Active, Connecting or has an attached client is the
\* registry's entry for its key, and the removeStream that a stopped stream
\* issued does not delete another stream registered under the key.
C35_RegistryConsistent ==
    [][/\ \A s \in Streams : InUse(s)' => registry'[st'[s].key] = s
       /\ \A s \in Streams :
             (removeStream(s) /\ registry[st[s].key] # s) => registry' = registry]_vars

\* C36: no signaling connection and no peer connection outlives its stopped
\* stream: once stopStreamInternal has called Stop on the bridge, the MQTT
\* client and the peer connection the bridge created are closed, also when
\* Start failed part-way and when a disconnect frame had cleared connected.
C36_StopClosesEverything ==
    wb.phase = "stopped" => (mq.link = "none" /\ wb.pc = "none")

----------------------------------------------------------------------------
(* The HEVC probe handshake and the stop sequence of the bridge *)

\* the step appends m to the messages the bridge sent
Sends(m) == wb'.sent = Append(wb.sent, m)

\* the step receives the string message m
Receives(m) == wb'.rcvd = Append(wb.rcvd, m)

\* C37: for an HEVC stream the probe handshake is ordered: codec is sent when
\* the data channel opens, start is sent only by the step that receives
\* codec, and the waiter is released only by the step that receives recv,
\* records the SSRCs and sends complete; the step that makes the peer
\* connection Connected never releases it.
C37_ProbeOrdered ==
    [][wb.isHEVC =>
          /\ Sends("codec") <=> dataChannelOnOpen(TRUE)
          /\ Sends("start") => Receives("codec")
          /\ (wb.waiter = "pending" /\ wb'.waiter = "done")
                => (Receives("recv") /\ wb'.ssrc /\ Sends("complete"))
          /\ bridgePcConnected => wb'.waiter = wb.waiter]_vars

\* an HEVC bridge that went through the whole handshake and is ready
C37_Witness ==
    /\ wb.isHEVC /\ wb.waiter = "done" /\ wb.connected
    /\ wb.rcvd = <<"codec", "recv">>
    /\ wb.sent = <<"codec", "start", "complete">>

\* what a complete Stop does, in order
StopSequence == <<"disconnect", "peerConnection", "mqttClient", "rtpForwarder">>

\* C38: Stop on a started, connected bridge whose signaling link is up
\* publishes the disconnect frame, then closes the peer connection, the
\* signaling client and the forwarder, in that order; a Stop on a stopped
\* bridge publishes nothing and closes nothing.
C38_StopSequence ==
    [][/\ (bridgeStopConnected /\ mq.link = "up")
             => wb'.stops = wb.stops \o StopSequence
       /\ ((bridgeStopConnected \/ bridgeStopNotConnected) /\ wb.phase = "stopped")
             => (wb'.stops = wb.stops /\ mq' = mq /\ wb'.pc = wb.pc)]_vars

====
